---- MODULE Spec2Model ----
(***************************************************************************)
(* Rev Exporter: the sync driver (rev_exporter/cli.py), the order          *)
(* enumerator (rev_exporter/orders.py), the download ledger and the        *)
(* storage layout (rev_exporter/storage.py) and the attachment manager     *)
(* (rev_exporter/attachments.py), as one sequential state machine.         *)
(*                                                                         *)
(* An optional value (None in the source) is the empty set, a present      *)
(* value v is the singleton {v}.                                           *)
(***************************************************************************)
EXTENDS Integers, Sequences, FiniteSets, TLC

\* ------------------------------------------------------------------ bounds

\* sync runs (process starts) in one behaviour
MaxRuns == 2
\* injected I/O and network failures in one behaviour
MaxFaults == 1
\* results_per_page of get_all_orders, scaled down from the default of 50
PageSize == 2
\* records of a remote listing drawn by InitEnum
MaxRecords == 4

\* ------------------------------------------------------------- the remote

Range(s) == {s[i] : i \in 1..Len(s)}

Min(a, b) == IF a <= b THEN a ELSE b

\* The attachment ids the remote serves.
AttIds == {"a1", "a2", "a3", "a4", "a5"}

\* "name" of an attachment in an order's detail response; a3 carries "name": null.
AttName(a) ==
  CASE a = "a1" -> {"transcript.json"}
    [] a = "a2" -> {"audio.mp3"}
    [] a = "a4" -> {"invoice.pdf"}
    [] a = "a5" -> {"notes.docx"}
    [] OTHER -> {}

\* "type" of an attachment in an order's detail response.
AttType(a) ==
  CASE a = "a1" -> {"transcript"}
    [] a = "a2" -> {"media"}
    [] a = "a4" -> {"document"}
    [] a = "a5" -> {"transcript"}
    [] OTHER -> {"caption"}

\* The attachment list of GET /orders/<n>; a1 is listed by two orders.
OrderAttachments(n) ==
  CASE n = 1 -> <<"a1", "a2">>
    [] n = 2 -> <<"a2">>
    [] n = 3 -> <<"a1", "a3">>
    [] n = 4 -> <<"a1", "a2", "a3", "a4">>
    [] n = 5 -> <<"a5", "a2">>
    [] OTHER -> <<>>

\* The listing the sync specification runs against: newest first, one record
\* not completed, the declared total_count accurate on every page.
SyncListing ==
  << [num |-> 1, status |-> "Complete", placed |-> {3}],
     [num |-> 2, status |-> "In Progress", placed |-> {2}],
     [num |-> 3, status |-> "FINISHED", placed |-> {1}] >>

\* A listing of one completed order that holds an attachment of every
\* category: transcript, media, caption and other.
CategoryListing ==
  << [num |-> 4, status |-> "Completed", placed |-> {3}] >>

\* Pages a listing of at most n records can be asked for: the last is empty.
Pages(n) == 0..((n \div PageSize) + 1)

VARIABLES
  listing,      \* remote: the records GET /orders serves, in remote order
  declared,     \* remote: page -> total_count of that page's response ({} = absent)
  indexFile,    \* disk: .rev-exporter-index.json
  files,        \* disk: attachment id -> state of its file
  metaFiles,    \* disk: order numbers whose attachments.json is written
  pc,           \* position of the sync process; "idle" = no process running
  args,         \* the command line of the running sync
  ledger,       \* StorageManager.downloaded_attachments
  page,         \* get_all_orders: page
  all_orders,   \* get_all_orders: all_orders
  requested,    \* the pages list_orders was called with, in order
  oi,           \* index into the completed orders
  ai,           \* index into the current order's attachments
  got,          \* endpoint that served the current attachment's bytes
  orders_scanned,
  attachments_downloaded,
  failures,
  exitCode,     \* {} while running or killed, {c} after sys.exit(c) / return
  end,          \* how the last run ended
  ops,          \* calls the current run has issued
  run,          \* runs started so far
  loaded,       \* the ledger as the current run loaded it
  loadOk,       \* the current run could read the ledger file
  lastPersist,  \* how the persist of the run's last mark_downloaded went
  prev,         \* the previous run: ids it marked, its last persist, its end
  disk0,        \* the disk as the current run found it
  saved,        \* ids a save_attachment call has completed for, in any run
  durable,      \* ids whose mark_downloaded returned after a successful persist
  faults,       \* failures injected so far
  call          \* a call of one of the naming functions: its arguments and result

remote == <<listing, declared>>
disk == <<indexFile, files, metaFiles>>
enumv == <<page, all_orders, requested>>
counters == <<orders_scanned, attachments_downloaded, failures>>
cursor == <<oi, ai, got>>
ending == <<exitCode, end>>
history == <<run, loaded, loadOk, prev, disk0>>
vars == <<remote, disk, pc, args, ledger, enumv, cursor, counters, ending,
          ops, history, lastPersist, saved, durable, faults, call>>

\* --------------------------------------------------------- pure functions

\* str.lower() on the status labels the remote uses.
Lower(s) ==
  CASE s = "Complete" -> "complete"
    [] s = "Completed" -> "completed"
    [] s = "FINISHED" -> "finished"
    [] s = "In Progress" -> "in progress"
    [] OTHER -> s

\* Order.is_completed
IsCompleted(o) == Lower(o.status) \in {"complete", "completed", "done", "finished"}

\* filter_completed_orders keeping every order.
FilterCompleted_KeepsAll(orders) == orders

\* OrderManager.filter_completed_orders
FilterCompleted(orders) == SelectSeq(orders, IsCompleted)

\* The keywords a lower-cased type or name contains as substrings.
Keywords(s) ==
  CASE s = "transcript.json" -> {"transcript", "json"}
    [] s = "audio.mp3" -> {"audio", "mp3"}
    [] s = "notes.docx" -> {"docx"}
    [] s = "transcript" -> {"transcript"}
    [] s = "caption" -> {"caption"}
    [] s = "media" -> {"media"}
    [] OTHER -> {}

\* AttachmentManager.classify_attachment: an absent type or name is "".
ClassifyAttachment(a) ==
  LET words == UNION {Keywords(s) : s \in AttType(a) \cup AttName(a)}
  IN  IF words \cap {"transcript", "transcription", "txt", "json", "docx"} # {}
        THEN "transcript"
      ELSE IF words \cap {"caption", "srt", "vtt", "subtitle"} # {}
        THEN "caption"
      ELSE IF words \cap {"media", "audio", "video", "mp3", "mp4", "wav",
                          "m4a", "mov", "avi"} # {}
        THEN "media"
      ELSE "other"

\* AttachmentManager.get_preferred_format
PreferredFormat(cat) ==
  CASE cat = "transcript" -> {"json"}
    [] cat = "caption" -> {"srt"}
    [] OTHER -> {}

\* sync's two category toggles: TRUE when the attachment is left out.
Excluded(cat, a) ==
  \/ cat = "media" /\ ~a.include_media
  \/ cat \in {"transcript", "caption"} /\ ~a.include_transcripts

\* The ledger file: absent, a well-formed document, or one json.load rejects.
Missing == [state |-> "missing", ids |-> {}]
Corrupt == [state |-> "corrupt", ids |-> {}]
Document(ids) == [state |-> "valid", ids |-> ids]

\* Ledger files the program never writes. json.load accepts all but NotText.
\* NotObject: JSON that is not an object, such as [] or null.
\* BadValue: an object whose "downloaded_attachments" set() rejects, such as
\*   null, a number, or a list holding a list.
\* NotText: bytes that are not UTF-8.
\* NoKey: an object without "downloaded_attachments".
\* StringValue: {"downloaded_attachments": "a1"}; set("a1") is {"a", "1"}.
NotObject == [state |-> "not_object", ids |-> {}]
BadValue == [state |-> "bad_value", ids |-> {}]
NotText == [state |-> "not_text", ids |-> {}]
NoKey == [state |-> "object", ids |-> {}]
StringValue == [state |-> "object", ids |-> {"a", "1"}]

\* StorageManager._load_index, lines 36-44: the exception that leaves it, {}
\* when none does. The handler takes json.JSONDecodeError and IOError only.
LoadError(f, readable) ==
  IF ~readable THEN {}
  ELSE CASE f.state = "not_object" -> {"AttributeError"}
         [] f.state = "bad_value" -> {"TypeError"}
         [] f.state = "not_text" -> {"UnicodeDecodeError"}
         [] OTHER -> {}

\* StorageManager._load_index: the set stays empty unless a document is read.
LoadIndex(f, readable) ==
  IF f.state \in {"valid", "object"} /\ readable THEN f.ids ELSE {}

\* GET /orders?page=p: the "orders" of the response.
PageOrders(p) ==
  SubSeq(listing, Min(p * PageSize, Len(listing)) + 1,
                  Min((p + 1) * PageSize, Len(listing)))

\* TotalCount with a missing total_count read as a total never reached.
TotalCount_AbsentIsUnbounded(p) ==
  IF declared[p] = {} THEN MaxRecords + 2 ELSE CHOOSE n \in declared[p] : TRUE

\* response.get("total_count", 0)
TotalCount(p) == IF declared[p] = {} THEN 0 ELSE CHOOSE n \in declared[p] : TRUE

\* OlderThan with a record without placed_on taken as older than any cutoff.
OlderThan_AbsentIsOlder(o, since) ==
  \E t \in since : o.placed = {} \/ \E d \in o.placed : d < t

\* The date filter of get_all_orders: `if since and order.placed_on:
\* if order.placed_on < since`.
OlderThan(o, since) == \E t \in since : \E d \in o.placed : d < t

\* Index of the first record of `orders` the cutoff stops at, 0 when none.
FirstOlder(orders, since) ==
  IF \E i \in 1..Len(orders) : OlderThan(orders[i], since)
    THEN CHOOSE i \in 1..Len(orders) :
           /\ OlderThan(orders[i], since)
           /\ \A j \in 1..(i - 1) : ~OlderThan(orders[j], since)
    ELSE 0

\* ------------------------------------------------ strings of characters

\* A file name, a type or a format is the sequence of its characters, so that
\* str.lower, `in`, str.endswith, str.strip and the regular expressions of
\* the naming functions are computed character by character.
UpperCase ==
  <<"A", "B", "C", "D", "E", "F", "G", "H", "I", "J", "K", "L", "M",
     "N", "O", "P", "Q", "R", "S", "T", "U", "V", "W", "X", "Y", "Z">>
LowerCase ==
  <<"a", "b", "c", "d", "e", "f", "g", "h", "i", "j", "k", "l", "m",
     "n", "o", "p", "q", "r", "s", "t", "u", "v", "w", "x", "y", "z">>
Digits == {"0", "1", "2", "3", "4", "5", "6", "7", "8", "9"}

\* str.lower() of one character and of a string.
LowerChar(c) ==
  IF \E i \in DOMAIN UpperCase : UpperCase[i] = c
    THEN LowerCase[CHOOSE i \in DOMAIN UpperCase : UpperCase[i] = c]
    ELSE c
StrLower(s) == [i \in 1..Len(s) |-> LowerChar(s[i])]

\* `k in s` for strings.
Contains(s, k) == \E i \in 0..(Len(s) - Len(k)) : SubSeq(s, i + 1, i + Len(k)) = k

\* s.endswith(k)
EndsWith(s, k) ==
  Len(k) <= Len(s) /\ SubSeq(s, Len(s) - Len(k) + 1, Len(s)) = k

\* The value of an optional string with Python's truthiness: None and "" are
\* both false, and `x if x else ""`, `x or d` read it through this test.
Truthy(x) == x # {} /\ x # {<<>>}
Value(x) == CHOOSE s \in x : TRUE

\* classify_attachment, lines 75, 80 and 85: the three keyword lists.
transcript_keywords ==
  << <<"t", "r", "a", "n", "s", "c", "r", "i", "p", "t">>,
     <<"t", "r", "a", "n", "s", "c", "r", "i", "p", "t", "i", "o", "n">>,
     <<"t", "x", "t">>,
     <<"j", "s", "o", "n">>,
     <<"d", "o", "c", "x">> >>
caption_keywords ==
  << <<"c", "a", "p", "t", "i", "o", "n">>,
     <<"s", "r", "t">>,
     <<"v", "t", "t">>,
     <<"s", "u", "b", "t", "i", "t", "l", "e">> >>
media_keywords ==
  << <<"m", "e", "d", "i", "a">>,
     <<"a", "u", "d", "i", "o">>,
     <<"v", "i", "d", "e", "o">>,
     <<"m", "p", "3">>,
     <<"m", "p", "4">>,
     <<"w", "a", "v">>,
     <<"m", "4", "a">>,
     <<"m", "o", "v">>,
     <<"a", "v", "i">> >>

\* any(keyword in att_type or keyword in name for keyword in keywords)
AnyKeyword(keywords, att_type, name) ==
  \E i \in DOMAIN keywords :
    Contains(att_type, keywords[i]) \/ Contains(name, keywords[i])

\* classify_attachment with the media keywords tested before the others.
classify_attachment_MediaFirst(type, name) ==
  LET att_type == IF Truthy(type) THEN StrLower(Value(type)) ELSE <<>>
      nm == IF Truthy(name) THEN StrLower(Value(name)) ELSE <<>>
  IN  IF AnyKeyword(media_keywords, att_type, nm) THEN "media"
      ELSE IF AnyKeyword(transcript_keywords, att_type, nm) THEN "transcript"
      ELSE IF AnyKeyword(caption_keywords, att_type, nm) THEN "caption"
      ELSE "other"

\* AttachmentManager.classify_attachment on the type and the name of an
\* attachment, each absent ({}) or a string.
classify_attachment(type, name) ==
  LET att_type == IF Truthy(type) THEN StrLower(Value(type)) ELSE <<>>
      nm == IF Truthy(name) THEN StrLower(Value(name)) ELSE <<>>
  IN  IF AnyKeyword(transcript_keywords, att_type, nm) THEN "transcript"
      ELSE IF AnyKeyword(caption_keywords, att_type, nm) THEN "caption"
      ELSE IF AnyKeyword(media_keywords, att_type, nm) THEN "media"
      ELSE "other"

\* [a-z0-9] under re.IGNORECASE
AlNum(c) == LowerChar(c) \in Range(LowerCase) \cup Digits

\* re.search(r"\.([a-z0-9]+)$", name, re.IGNORECASE): the group of the match,
\* as a set that is empty when nothing matches. A dot matches when letters
\* and digits, at least one, run from it to the end of the name.
ReSuffix(name) ==
  { SubSeq(name, i + 1, Len(name)) :
      i \in { k \in 1..(Len(name) - 1) :
                /\ name[k] = "."
                /\ \A j \in (k + 1)..Len(name) : AlNum(name[j]) } }

\* get_file_extension with the name's suffix tried before the format.
get_file_extension_NameFirst(name, attachment_type, format) ==
  IF Truthy(name) /\ ReSuffix(Value(name)) # {}
    THEN <<".">> \o StrLower(Value(ReSuffix(Value(name))))
  ELSE IF Truthy(format) THEN <<".">> \o Value(format)
  ELSE IF attachment_type = "transcript" THEN <<".", "t", "x", "t">>
  ELSE IF attachment_type = "caption" THEN <<".", "s", "r", "t">>
  ELSE IF attachment_type = "media" THEN <<".", "m", "p", "3">>
  ELSE <<".", "b", "i", "n">>

\* AttachmentManager.get_file_extension(attachment, attachment_type, format)
get_file_extension(name, attachment_type, format) ==
  IF Truthy(format) THEN <<".">> \o Value(format)
  ELSE IF Truthy(name) /\ ReSuffix(Value(name)) # {}
    THEN <<".">> \o StrLower(Value(ReSuffix(Value(name))))
  ELSE IF attachment_type = "transcript" THEN <<".", "t", "x", "t">>
  ELSE IF attachment_type = "caption" THEN <<".", "s", "r", "t">>
  ELSE IF attachment_type = "media" THEN <<".", "m", "p", "3">>
  ELSE <<".", "b", "i", "n">>

\* The characters sanitize_filename replaces by "_": [<>:"/\|?*]
InvalidChars == {"<", ">", ":", "\"", "/", "\\", "|", "?", "*"}

RECURSIVE LStrip(_)
LStrip(s) == IF s # <<>> /\ Head(s) \in {" ", "."} THEN LStrip(Tail(s)) ELSE s

RECURSIVE RStrip(_)
RStrip(s) ==
  IF s # <<>> /\ s[Len(s)] \in {" ", "."}
    THEN RStrip(SubSeq(s, 1, Len(s) - 1))
    ELSE s

\* AttachmentManager.sanitize_filename
sanitize_filename(filename) ==
  LET replaced == [i \in 1..Len(filename) |->
                     IF filename[i] \in InvalidChars THEN "_" ELSE filename[i]]
      stripped == RStrip(LStrip(replaced))
  IN  IF Len(stripped) > 200 THEN SubSeq(stripped, 1, 200) ELSE stripped

\* save_attachment with captions routed by the final else.
save_attachment_CaptionToOther(order_number, id, name, attachment_type, file_extension) ==
  LET target_dir == IF attachment_type = "media" THEN <<"m", "e", "d", "i", "a">>
                    ELSE IF attachment_type = "transcript"
                      THEN <<"t", "r", "a", "n", "s", "c", "r", "i", "p", "t", "s">>
                    ELSE <<"o", "t", "h", "e", "r">>
      sanitized_name ==
        sanitize_filename(IF Truthy(name) THEN Value(name) ELSE <<"a", "t", "t", "a", "c", "h", "m", "e", "n", "t">>)
  IN  <<order_number, target_dir, id \o <<"_">> \o sanitized_name \o file_extension>>

\* StorageManager.save_attachment: the path of the file it writes, as
\* <<order directory, category directory, file name>>.
save_attachment(order_number, id, name, attachment_type, file_extension) ==
  LET target_dir == IF attachment_type = "media" THEN <<"m", "e", "d", "i", "a">>
                    ELSE IF attachment_type \in {"transcript", "caption"}
                      THEN <<"t", "r", "a", "n", "s", "c", "r", "i", "p", "t", "s">>
                    ELSE <<"o", "t", "h", "e", "r">>
      sanitized_name ==
        sanitize_filename(IF Truthy(name) THEN Value(name) ELSE <<"a", "t", "t", "a", "c", "h", "m", "e", "n", "t">>)
  IN  <<order_number, target_dir, id \o <<"_">> \o sanitized_name \o file_extension>>

\* The characters of the names, types and formats of the sync listings.
Chars(s) ==
  CASE s = "transcript.json" -> <<"t", "r", "a", "n", "s", "c", "r", "i", "p", "t", ".", "j", "s", "o", "n">>
    [] s = "audio.mp3" -> <<"a", "u", "d", "i", "o", ".", "m", "p", "3">>
    [] s = "invoice.pdf" -> <<"i", "n", "v", "o", "i", "c", "e", ".", "p", "d", "f">>
    [] s = "notes.docx" -> <<"n", "o", "t", "e", "s", ".", "d", "o", "c", "x">>
    [] s = "transcript" -> <<"t", "r", "a", "n", "s", "c", "r", "i", "p", "t">>
    [] s = "media" -> <<"m", "e", "d", "i", "a">>
    [] s = "caption" -> <<"c", "a", "p", "t", "i", "o", "n">>
    [] s = "document" -> <<"d", "o", "c", "u", "m", "e", "n", "t">>
    [] s = "json" -> <<"j", "s", "o", "n">>
    [] s = "srt" -> <<"s", "r", "t">>
OptChars(x) == {Chars(s) : s \in x}

\* "id" of the remote's attachments and "order_number" of its orders: order 1
\* with a1 and a2 is the record 12345 with a1901 and a2100.
AttIdChars(a) ==
  CASE a = "a1" -> <<"a", "1", "9", "0", "1">>
    [] a = "a2" -> <<"a", "2", "1", "0", "0">>
    [] a = "a3" -> <<"a", "3", "3", "0", "0">>
    [] a = "a5" -> <<"a", "5", "5", "0", "0">>
    [] OTHER -> <<"a", "4", "4", "0", "0">>
OrderNumber(n) ==
  CASE n = 1 -> <<"1", "2", "3", "4", "5">>
    [] n = 2 -> <<"1", "2", "3", "4", "6">>
    [] n = 3 -> <<"1", "2", "3", "4", "7">>
    [] n = 5 -> <<"1", "2", "3", "4", "9">>
    [] OTHER -> <<"1", "2", "3", "4", "8">>

\* sync, lines 161-205, for attachment a of order n: classify, preferred
\* format, extension (always from the preferred format), save_attachment.
SavedPath(n, a) ==
  LET att_type == ClassifyAttachment(a)
      preferred_format == OptChars(PreferredFormat(att_type))
      name == OptChars(AttName(a))
      file_ext == get_file_extension(name, att_type, preferred_format)
  IN  save_attachment(OrderNumber(n), AttIdChars(a), name, att_type, file_ext)

\* FileScanner._get_real_extension, lines 139-141: the two suffix lists.
content_extensions ==
  << <<".", "d", "o", "c", "x">>,
     <<".", "s", "r", "t">>,
     <<".", "t", "x", "t">> >>
metadata_extensions == << <<".", "j", "s", "o", "n">> >>

\* Pairs of indices in the order of two nested for loops over a list.
Pairs(xs, ys) == {<<i, j>> : i \in DOMAIN xs, j \in DOMAIN ys}
FirstPair(ps) ==
  CHOOSE p \in ps : \A q \in ps : p[1] < q[1] \/ (p[1] = q[1] /\ p[2] <= q[2])

\* Path.suffix of a file name: from the last dot on, when that dot is neither
\* the first nor the last character.
PathSuffix(name) ==
  LET dots == {i \in 1..Len(name) : name[i] = "."}
  IN  IF dots = {} THEN <<>>
      ELSE LET i == CHOOSE d \in dots : \A e \in dots : e <= d
           IN  IF 1 < i /\ i < Len(name) THEN SubSeq(name, i, Len(name)) ELSE <<>>

\* _get_real_extension preferring the second of two different content
\* suffixes.
get_real_extension_PrefersSecond(file_name) ==
  LET name == StrLower(file_name)
      ce == content_extensions
      me == metadata_extensions
      doubled == {i \in DOMAIN ce : EndsWith(name, ce[i] \o ce[i])}
      wrapped == {p \in Pairs(ce, me) : EndsWith(name, ce[p[1]] \o me[p[2]])}
      mixed == {p \in Pairs(ce, ce) :
                  ce[p[1]] # ce[p[2]] /\ EndsWith(name, ce[p[1]] \o ce[p[2]])}
      single == {i \in DOMAIN ce : EndsWith(name, ce[i])}
  IN  IF doubled # {} THEN ce[CHOOSE i \in doubled : \A j \in doubled : i <= j]
      ELSE IF wrapped # {} THEN ce[FirstPair(wrapped)[1]]
      ELSE IF mixed # {} THEN ce[FirstPair(mixed)[2]]
      ELSE IF single # {} THEN ce[CHOOSE i \in single : \A j \in single : i <= j]
      ELSE StrLower(PathSuffix(file_name))

\* FileScanner._get_real_extension on the name of the file.
get_real_extension(file_name) ==
  LET name == StrLower(file_name)
      ce == content_extensions
      me == metadata_extensions
      doubled == {i \in DOMAIN ce : EndsWith(name, ce[i] \o ce[i])}
      wrapped == {p \in Pairs(ce, me) : EndsWith(name, ce[p[1]] \o me[p[2]])}
      mixed == {p \in Pairs(ce, ce) :
                  ce[p[1]] # ce[p[2]] /\ EndsWith(name, ce[p[1]] \o ce[p[2]])}
      single == {i \in DOMAIN ce : EndsWith(name, ce[i])}
  IN  IF doubled # {} THEN ce[CHOOSE i \in doubled : \A j \in doubled : i <= j]
      ELSE IF wrapped # {} THEN ce[FirstPair(wrapped)[1]]
      ELSE IF mixed # {} THEN ce[FirstPair(mixed)[1]]
      ELSE IF single # {} THEN ce[CHOOSE i \in single : \A j \in single : i <= j]
      ELSE StrLower(PathSuffix(file_name))

\* FileScanner._is_viewable, line 186: the suffixes that make a name ending
\* in .json viewable.
json_wrapped_extensions ==
  << <<".", "d", "o", "c", "x">>,
     <<".", "s", "r", "t">>,
     <<".", "t", "x", "t">>,
     <<".", "m", "p", "4">>,
     <<".", "m", "4", "a">>,
     <<".", "m", "p", "3">> >>
viewable_extensions ==
  { <<".", "d", "o", "c", "x">>,
    <<".", "t", "x", "t">>,
    <<".", "s", "r", "t">> }

\* _is_viewable treating every name that ends in .json as metadata.
is_viewable_JsonIsMetadata(file_name) ==
  LET name_lower == StrLower(file_name)
      dot_json == <<".", "j", "s", "o", "n">>
  IN  IF EndsWith(name_lower, dot_json)
        THEN FALSE
        ELSE get_real_extension(file_name) \in viewable_extensions

\* FileScanner._is_viewable on the name of the file.
is_viewable(file_name) ==
  LET name_lower == StrLower(file_name)
      dot_json == <<".", "j", "s", "o", "n">>
  IN  IF EndsWith(name_lower, dot_json)
        THEN \E i \in DOMAIN json_wrapped_extensions :
               EndsWith(name_lower, json_wrapped_extensions[i] \o dot_json)
        ELSE get_real_extension(file_name) \in viewable_extensions

\* ------------------------------------------------------------- the process

Completed == FilterCompleted(all_orders)
CurOrder == Completed[oi]
CurAtts == OrderAttachments(CurOrder.num)
CurAtt == CurAtts[ai]

Op(o, a, id, op, ok) == [oi |-> o, ai |-> a, id |-> id, op |-> op, ok |-> ok]

NoFiles == [a \in AttIds |-> "none"]

\* The ids of the attachments whose processing raised in this run before
\* save_attachment returned: a failed metadata fetch, content fetch or write.
Failed ==
  {o.id : o \in {x \in ops : /\ ~x.ok
                              /\ x.op \in {"meta", "content_body",
                                            "content_bare", "save"}}}

\* No naming function is being called.
NoCall == [fn |-> "none"]

\* The export root is empty and no process runs.
Init ==
  /\ listing = SyncListing
  /\ declared = [p \in Pages(Len(SyncListing)) |-> {Len(SyncListing)}]
  /\ indexFile = Missing
  /\ files = NoFiles
  /\ metaFiles = {}
  /\ pc = "idle"
  /\ args = [dry_run |-> FALSE, include_media |-> TRUE,
             include_transcripts |-> TRUE, since |-> {}]
  /\ ledger = {}
  /\ page = 0
  /\ all_orders = <<>>
  /\ requested = <<>>
  /\ oi = 0
  /\ ai = 0
  /\ got = "none"
  /\ orders_scanned = 0
  /\ attachments_downloaded = 0
  /\ failures = <<>>
  /\ exitCode = {}
  /\ end = "none"
  /\ ops = {}
  /\ run = 0
  /\ loaded = {}
  /\ loadOk = TRUE
  /\ lastPersist = "none"
  /\ prev = [marked |-> {}, lastPersist |-> "none", completed |-> FALSE]
  /\ disk0 = <<Missing, NoFiles, {}>>
  /\ saved = {}
  /\ durable = {}
  /\ faults = 0
  /\ call = NoCall

\* The command lines a run can be started with: every combination of the
\* three flags without --since, and --since with the flags at their defaults.
ArgSets ==
  [dry_run : BOOLEAN, include_media : BOOLEAN, include_transcripts : BOOLEAN,
   since : {{}}]
  \cup [dry_run : {FALSE}, include_media : {TRUE}, include_transcripts : {TRUE},
        since : {{2}}]

\* sync, lines 104-119: StorageManager(output_dir) loads the ledger file.
Start(a, readable) ==
  /\ pc = "idle"
  /\ run < MaxRuns
  /\ pc' = "enum"
  /\ args' = a
  /\ ledger' = LoadIndex(indexFile, readable)
  /\ loaded' = LoadIndex(indexFile, readable)
  /\ loadOk' = readable
  /\ page' = 0
  /\ all_orders' = <<>>
  /\ requested' = <<>>
  /\ oi' = 0
  /\ ai' = 0
  /\ got' = "none"
  /\ orders_scanned' = 0
  /\ attachments_downloaded' = 0
  /\ failures' = <<>>
  /\ exitCode' = {}
  /\ end' = "running"
  /\ ops' = {}
  /\ run' = run + 1
  /\ lastPersist' = "none"
  /\ prev' = [marked |-> ledger \ loaded, lastPersist |-> lastPersist,
              completed |-> end = "done"]
  /\ disk0' = disk
  /\ UNCHANGED <<call, remote, disk, saved, durable>>

StartSync(a) ==
  /\ Start(a, TRUE)
  /\ UNCHANGED faults

\* _load_index, lines 43-44: the file exists and reading it raises IOError.
StartSyncUnreadable(a) ==
  /\ indexFile.state # "missing"
  /\ faults < MaxFaults
  /\ faults' = faults + 1
  /\ Start(a, FALSE)

\* sync, lines 108-111: the credentials are not configured; sync prints the
\* error and exits with code 1 before StorageManager is constructed.
SyncNotConfigured ==
  /\ pc = "idle"
  /\ run < MaxRuns
  /\ ledger' = {}
  /\ loaded' = {}
  /\ loadOk' = FALSE
  /\ page' = 0
  /\ all_orders' = <<>>
  /\ requested' = <<>>
  /\ oi' = 0
  /\ ai' = 0
  /\ got' = "none"
  /\ orders_scanned' = 0
  /\ attachments_downloaded' = 0
  /\ failures' = <<>>
  /\ exitCode' = {1}
  /\ end' = "unconfigured"
  /\ ops' = {}
  /\ run' = run + 1
  /\ lastPersist' = "none"
  /\ prev' = [marked |-> ledger \ loaded, lastPersist |-> lastPersist,
              completed |-> end = "done"]
  /\ disk0' = disk
  /\ UNCHANGED <<call, remote, disk, pc, args, saved, durable, faults>>

\* GoOrder with the exit code taken from the failure list.
GoOrder_FailuresExitOne(i) ==
  /\ oi' = i
  /\ ai' = 0
  /\ got' = "none"
  /\ IF i <= Len(Completed)
       THEN pc' = "order" /\ UNCHANGED ending
       ELSE /\ pc' = "idle"
            /\ exitCode' = IF failures = <<>> THEN {0} ELSE {1}
            /\ end' = "done"

\* Leaving the attachment loop and the order loop; after the last completed
\* order sync prints the summary and returns.
GoOrder(i) ==
  /\ oi' = i
  /\ ai' = 0
  /\ got' = "none"
  /\ IF i <= Len(Completed)
       THEN pc' = "order" /\ UNCHANGED ending
       ELSE pc' = "idle" /\ exitCode' = {0} /\ end' = "done"

GoAtt(j) ==
  IF j <= Len(CurAtts)
    THEN pc' = "att" /\ oi' = oi /\ ai' = j /\ got' = "none" /\ UNCHANGED ending
    ELSE GoOrder(oi + 1)

Fault == faults < MaxFaults /\ faults' = faults + 1

\* ListOrdersPage without `page += 1`: the same page is requested again.
ListOrdersPage_SamePage ==
  /\ pc = "enum"
  /\ requested' = Append(requested, page)
  /\ ops' = ops \cup {Op(0, 0, "", "list", TRUE)}
  /\ LET recs == PageOrders(page)
         k == FirstOlder(recs, args.since)
     IN  IF recs = <<>>
           THEN pc' = "filter" /\ UNCHANGED <<all_orders, page>>
         ELSE IF k > 0
           THEN /\ all_orders' = all_orders \o SubSeq(recs, 1, k - 1)
                /\ pc' = "filter"
                /\ page' = page
         ELSE /\ all_orders' = all_orders \o recs
              /\ IF Len(all_orders') >= TotalCount(page)
                   THEN pc' = "filter" /\ page' = page
                   ELSE pc' = "enum" /\ page' = page
  /\ UNCHANGED <<call, remote, disk, args, ledger, cursor, counters, ending,
                 history, lastPersist, saved, durable, faults>>

\* ListOrdersPage with the total_count test `>` in place of `>=`.
ListOrdersPage_StrictTotal ==
  /\ pc = "enum"
  /\ requested' = Append(requested, page)
  /\ ops' = ops \cup {Op(0, 0, "", "list", TRUE)}
  /\ LET recs == PageOrders(page)
         k == FirstOlder(recs, args.since)
     IN  IF recs = <<>>
           THEN pc' = "filter" /\ UNCHANGED <<all_orders, page>>
         ELSE IF k > 0
           THEN /\ all_orders' = all_orders \o SubSeq(recs, 1, k - 1)
                /\ pc' = "filter"
                /\ page' = page
         ELSE /\ all_orders' = all_orders \o recs
              /\ IF Len(all_orders') > TotalCount(page)
                   THEN pc' = "filter" /\ page' = page
                   ELSE pc' = "enum" /\ page' = page + 1
  /\ UNCHANGED <<call, remote, disk, args, ledger, cursor, counters, ending,
                 history, lastPersist, saved, durable, faults>>

\* ListOrdersPage with the older record appended before the cutoff test.
ListOrdersPage_EmitsOlder ==
  /\ pc = "enum"
  /\ requested' = Append(requested, page)
  /\ ops' = ops \cup {Op(0, 0, "", "list", TRUE)}
  /\ LET recs == PageOrders(page)
         k == FirstOlder(recs, args.since)
     IN  IF recs = <<>>
           THEN pc' = "filter" /\ UNCHANGED <<all_orders, page>>
         ELSE IF k > 0
           THEN /\ all_orders' = all_orders \o SubSeq(recs, 1, k)
                /\ pc' = "filter"
                /\ page' = page
         ELSE /\ all_orders' = all_orders \o recs
              /\ IF Len(all_orders') >= TotalCount(page)
                   THEN pc' = "filter" /\ page' = page
                   ELSE pc' = "enum" /\ page' = page + 1
  /\ UNCHANGED <<call, remote, disk, args, ledger, cursor, counters, ending,
                 history, lastPersist, saved, durable, faults>>

\* get_all_orders, one turn of `while True` with list_orders returning.
ListOrdersPage ==
  /\ pc = "enum"
  /\ requested' = Append(requested, page)
  /\ ops' = ops \cup {Op(0, 0, "", "list", TRUE)}
  /\ LET recs == PageOrders(page)
         k == FirstOlder(recs, args.since)
     IN  IF recs = <<>>
           THEN pc' = "filter" /\ UNCHANGED <<all_orders, page>>
         ELSE IF k > 0
           THEN /\ all_orders' = all_orders \o SubSeq(recs, 1, k - 1)
                /\ pc' = "filter"
                /\ page' = page
         ELSE /\ all_orders' = all_orders \o recs
              /\ IF Len(all_orders') >= TotalCount(page)
                   THEN pc' = "filter" /\ page' = page
                   ELSE pc' = "enum" /\ page' = page + 1
  /\ UNCHANGED <<call, remote, disk, args, ledger, cursor, counters, ending,
                 history, lastPersist, saved, durable, faults>>

\* ListOrdersFail with the error swallowed: the pages read so far are returned.
ListOrdersFail_ReturnsPartial ==
  /\ pc = "enum"
  /\ Fault
  /\ requested' = Append(requested, page)
  /\ ops' = ops \cup {Op(0, 0, "", "list", FALSE)}
  /\ pc' = "filter"
  /\ UNCHANGED <<call, remote, disk, args, ledger, page, all_orders, cursor, counters,
                 ending, history, lastPersist, saved, durable>>

\* list_orders raises RevAPIError: get_all_orders re-raises it and sync's
\* `except Exception` exits with code 1.
ListOrdersFail ==
  /\ pc = "enum"
  /\ Fault
  /\ requested' = Append(requested, page)
  /\ ops' = ops \cup {Op(0, 0, "", "list", FALSE)}
  /\ all_orders' = <<>>
  /\ pc' = "idle"
  /\ exitCode' = {1}
  /\ end' = "fatal"
  /\ UNCHANGED <<call, remote, disk, args, ledger, page, cursor, counters,
                 history, lastPersist, saved, durable>>

\* sync, lines 126-137.
FilterCompletedOrders ==
  /\ pc = "filter"
  /\ IF Completed = <<>>
       THEN pc' = "idle" /\ exitCode' = {0} /\ end' = "nothing" /\ UNCHANGED cursor
       ELSE GoOrder(1)
  /\ UNCHANGED <<call, remote, disk, args, ledger, enumv, counters, ops, history,
                 lastPersist, saved, durable, faults>>

\* GetOrderDetailsOk without the dry_run test before save_order_metadata.
GetOrderDetailsOk_AlwaysSavesMetadata ==
  /\ pc = "order"
  /\ ops' = ops \cup {Op(oi, 0, "", "detail", TRUE)}
  /\ orders_scanned' = orders_scanned + 1
  /\ pc' = "savemeta"
  /\ UNCHANGED <<cursor, ending>>
  /\ UNCHANGED <<call, remote, disk, args, ledger, enumv, attachments_downloaded,
                 failures, history, lastPersist, saved, durable, faults>>

\* sync, lines 144-145: get_order_details returns.
GetOrderDetailsOk ==
  /\ pc = "order"
  /\ ops' = ops \cup {Op(oi, 0, "", "detail", TRUE)}
  /\ orders_scanned' = orders_scanned + 1
  /\ IF args.dry_run
       THEN GoAtt(1)
       ELSE pc' = "savemeta" /\ UNCHANGED <<cursor, ending>>
  /\ UNCHANGED <<call, remote, disk, args, ledger, enumv, attachments_downloaded,
                 failures, history, lastPersist, saved, durable, faults>>

\* GetOrderDetailsFail without the order's handler: the error ends the run.
GetOrderDetailsFail_Fatal ==
  /\ pc = "order"
  /\ Fault
  /\ ops' = ops \cup {Op(oi, 0, "", "detail", FALSE)}
  /\ failures' = Append(failures, <<"order", oi, 0>>)
  /\ pc' = "idle"
  /\ exitCode' = {1}
  /\ end' = "fatal"
  /\ UNCHANGED <<call, remote, disk, args, ledger, enumv, cursor, orders_scanned,
                 attachments_downloaded, history, lastPersist, saved, durable>>

\* get_order_details raises: the order's `except Exception`, lines 222-228.
GetOrderDetailsFail ==
  /\ pc = "order"
  /\ Fault
  /\ ops' = ops \cup {Op(oi, 0, "", "detail", FALSE)}
  /\ failures' = Append(failures, <<"order", oi, 0>>)
  /\ GoOrder(oi + 1)
  /\ UNCHANGED <<call, remote, disk, args, ledger, enumv, orders_scanned,
                 attachments_downloaded, history, lastPersist, saved, durable>>

\* sync, lines 148-149: save_order_metadata returns.
SaveOrderMetadataOk ==
  /\ pc = "savemeta"
  /\ metaFiles' = metaFiles \cup {CurOrder.num}
  /\ ops' = ops \cup {Op(oi, 0, "", "savemeta", TRUE)}
  /\ GoAtt(1)
  /\ UNCHANGED <<call, remote, indexFile, files, args, ledger, enumv, counters,
                 history, lastPersist, saved, durable, faults>>

\* SaveOrderMetadataFail without the order's handler: the error ends the run.
SaveOrderMetadataFail_Fatal ==
  /\ pc = "savemeta"
  /\ Fault
  /\ ops' = ops \cup {Op(oi, 0, "", "savemeta", FALSE)}
  /\ failures' = Append(failures, <<"order", oi, 0>>)
  /\ pc' = "idle"
  /\ exitCode' = {1}
  /\ end' = "fatal"
  /\ UNCHANGED <<call, remote, disk, args, ledger, enumv, cursor, orders_scanned,
                 attachments_downloaded, history, lastPersist, saved, durable>>

\* SaveOrderMetadataFail with the error swallowed: sync goes on to the
\* order's attachments.
SaveOrderMetadataFail_Swallowed ==
  /\ pc = "savemeta"
  /\ Fault
  /\ ops' = ops \cup {Op(oi, 0, "", "savemeta", FALSE)}
  /\ failures' = Append(failures, <<"order", oi, 0>>)
  /\ GoAtt(1)
  /\ UNCHANGED <<call, remote, disk, args, ledger, enumv, orders_scanned,
                 attachments_downloaded, history, lastPersist, saved, durable>>

\* save_order_metadata raises: the order's `except Exception`.
SaveOrderMetadataFail ==
  /\ pc = "savemeta"
  /\ Fault
  /\ ops' = ops \cup {Op(oi, 0, "", "savemeta", FALSE)}
  /\ failures' = Append(failures, <<"order", oi, 0>>)
  /\ GoOrder(oi + 1)
  /\ UNCHANGED <<call, remote, disk, args, ledger, enumv, orders_scanned,
                 attachments_downloaded, history, lastPersist, saved, durable>>

\* CheckAttachment without the is_downloaded test.
CheckAttachment_NoLedgerCheck ==
  /\ pc = "att"
  /\ LET a == CurAtt
         cat == ClassifyAttachment(a)
     IN  IF Excluded(cat, args)
           THEN /\ ops' = ops \cup {Op(oi, ai, a, "excluded", TRUE)}
                /\ UNCHANGED <<attachments_downloaded, failures>>
                /\ GoAtt(ai + 1)
         ELSE IF args.dry_run
           THEN /\ ops' = ops \cup {Op(oi, ai, a, "would", TRUE)}
                /\ attachments_downloaded' = attachments_downloaded + 1
                /\ UNCHANGED failures
                /\ GoAtt(ai + 1)
         ELSE /\ ops' = ops \cup {Op(oi, ai, a, "miss", TRUE)}
              /\ pc' = "meta"
              /\ UNCHANGED <<attachments_downloaded, failures, cursor, ending>>
  /\ UNCHANGED <<call, remote, disk, args, ledger, enumv, orders_scanned, history,
                 lastPersist, saved, durable, faults>>

\* CheckAttachment with the media toggle applied to every category but
\* transcript and caption.
CheckAttachment_ToggleByElse ==
  /\ pc = "att"
  /\ LET a == CurAtt
         cat == ClassifyAttachment(a)
     IN  IF a \in ledger
           THEN /\ ops' = ops \cup {Op(oi, ai, a, "hit", TRUE)}
                /\ failures' = IF AttName(a) = {}
                                 THEN Append(failures, <<"att", oi, ai>>)
                                 ELSE failures
                /\ UNCHANGED attachments_downloaded
                /\ GoAtt(ai + 1)
         ELSE IF \/ cat \in {"transcript", "caption"} /\ ~args.include_transcripts
                 \/ cat \notin {"transcript", "caption"} /\ ~args.include_media
           THEN /\ ops' = ops \cup {Op(oi, ai, a, "excluded", TRUE)}
                /\ UNCHANGED <<attachments_downloaded, failures>>
                /\ GoAtt(ai + 1)
         ELSE IF args.dry_run
           THEN /\ ops' = ops \cup {Op(oi, ai, a, "would", TRUE)}
                /\ attachments_downloaded' = attachments_downloaded + 1
                /\ UNCHANGED failures
                /\ GoAtt(ai + 1)
         ELSE /\ ops' = ops \cup {Op(oi, ai, a, "miss", TRUE)}
              /\ pc' = "meta"
              /\ UNCHANGED <<attachments_downloaded, failures, cursor, ending>>
  /\ UNCHANGED <<call, remote, disk, args, ledger, enumv, orders_scanned, history,
                 lastPersist, saved, durable, faults>>

\* CheckAttachment skipping also an attachment whose file is on disk.
CheckAttachment_SkipsExistingFile ==
  /\ pc = "att"
  /\ LET a == CurAtt
         cat == ClassifyAttachment(a)
     IN  IF a \in ledger \/ files[a] # "none"
           THEN /\ ops' = ops \cup {Op(oi, ai, a, "hit", TRUE)}
                /\ failures' = IF AttName(a) = {}
                                 THEN Append(failures, <<"att", oi, ai>>)
                                 ELSE failures
                /\ UNCHANGED attachments_downloaded
                /\ GoAtt(ai + 1)
         ELSE IF Excluded(cat, args)
           THEN /\ ops' = ops \cup {Op(oi, ai, a, "excluded", TRUE)}
                /\ UNCHANGED <<attachments_downloaded, failures>>
                /\ GoAtt(ai + 1)
         ELSE IF args.dry_run
           THEN /\ ops' = ops \cup {Op(oi, ai, a, "would", TRUE)}
                /\ attachments_downloaded' = attachments_downloaded + 1
                /\ UNCHANGED failures
                /\ GoAtt(ai + 1)
         ELSE /\ ops' = ops \cup {Op(oi, ai, a, "miss", TRUE)}
              /\ pc' = "meta"
              /\ UNCHANGED <<attachments_downloaded, failures, cursor, ending>>
  /\ UNCHANGED <<call, remote, disk, args, ledger, enumv, orders_scanned, history,
                 lastPersist, saved, durable, faults>>

\* sync, lines 153-182: the ledger check, the category toggles and the
\* dry-run branch. The [SKIP] line encodes attachment.name, which raises
\* AttributeError when the name is None.
CheckAttachment ==
  /\ pc = "att"
  /\ LET a == CurAtt
         cat == ClassifyAttachment(a)
     IN  IF a \in ledger
           THEN /\ ops' = ops \cup {Op(oi, ai, a, "hit", TRUE)}
                /\ failures' = IF AttName(a) = {}
                                 THEN Append(failures, <<"att", oi, ai>>)
                                 ELSE failures
                /\ UNCHANGED attachments_downloaded
                /\ GoAtt(ai + 1)
         ELSE IF Excluded(cat, args)
           THEN /\ ops' = ops \cup {Op(oi, ai, a, "excluded", TRUE)}
                /\ UNCHANGED <<attachments_downloaded, failures>>
                /\ GoAtt(ai + 1)
         ELSE IF args.dry_run
           THEN /\ ops' = ops \cup {Op(oi, ai, a, "would", TRUE)}
                /\ attachments_downloaded' = attachments_downloaded + 1
                /\ UNCHANGED failures
                /\ GoAtt(ai + 1)
         ELSE /\ ops' = ops \cup {Op(oi, ai, a, "miss", TRUE)}
              /\ pc' = "meta"
              /\ UNCHANGED <<attachments_downloaded, failures, cursor, ending>>
  /\ UNCHANGED <<call, remote, disk, args, ledger, enumv, orders_scanned, history,
                 lastPersist, saved, durable, faults>>

\* AttachmentFailed without the append to the failure list.
AttachmentFailed_NotRecorded ==
  /\ UNCHANGED failures
  /\ GoAtt(ai + 1)

\* The attachment's `except Exception`, lines 214-220.
AttachmentFailed ==
  /\ failures' = Append(failures, <<"att", oi, ai>>)
  /\ GoAtt(ai + 1)

\* sync, lines 184-186: get_attachment_metadata returns.
GetAttachmentMetadataOk ==
  /\ pc = "meta"
  /\ ops' = ops \cup {Op(oi, ai, CurAtt, "meta", TRUE)}
  /\ pc' = IF PreferredFormat(ClassifyAttachment(CurAtt)) # {}
             THEN "content_fmt" ELSE "content_bare"
  /\ UNCHANGED <<call, remote, disk, args, ledger, enumv, cursor, counters, ending,
                 history, lastPersist, saved, durable, faults>>

\* GetAttachmentMetadataFail caught by the order's handler only: the rest of
\* the order is skipped.
GetAttachmentMetadataFail_AbortsOrder ==
  /\ pc = "meta"
  /\ Fault
  /\ ops' = ops \cup {Op(oi, ai, CurAtt, "meta", FALSE)}
  /\ failures' = Append(failures, <<"att", oi, ai>>)
  /\ GoOrder(oi + 1)
  /\ UNCHANGED <<call, remote, disk, args, ledger, enumv, orders_scanned,
                 attachments_downloaded, history, lastPersist, saved, durable>>

\* GetAttachmentMetadataFail with the id added to the ledger all the same.
GetAttachmentMetadataFail_MarksAnyway ==
  /\ pc = "meta"
  /\ Fault
  /\ ops' = ops \cup {Op(oi, ai, CurAtt, "meta", FALSE)}
  /\ ledger' = ledger \cup {CurAtt}
  /\ AttachmentFailed
  /\ UNCHANGED <<call, remote, disk, args, enumv, orders_scanned,
                 attachments_downloaded, history, lastPersist, saved, durable>>

\* get_attachment_metadata raises: the attachment's `except Exception`.
GetAttachmentMetadataFail ==
  /\ pc = "meta"
  /\ Fault
  /\ ops' = ops \cup {Op(oi, ai, CurAtt, "meta", FALSE)}
  /\ AttachmentFailed
  /\ UNCHANGED <<call, remote, disk, args, ledger, enumv, orders_scanned,
                 attachments_downloaded, history, lastPersist, saved, durable>>

\* download_attachment_content, lines 110-113: content.<format> is served.
DownloadFormatOk ==
  /\ pc = "content_fmt"
  /\ ops' = ops \cup {Op(oi, ai, CurAtt, "content_fmt", TRUE)}
  /\ got' = "format"
  /\ pc' = "save"
  /\ UNCHANGED <<call, remote, disk, args, ledger, enumv, oi, ai, counters, ending,
                 history, lastPersist, saved, durable, faults>>

\* lines 114-118: RevAPIError on content.<format> is swallowed.
DownloadFormatFail ==
  /\ pc = "content_fmt"
  /\ Fault
  /\ ops' = ops \cup {Op(oi, ai, CurAtt, "content_fmt", FALSE)}
  /\ pc' = "content_bare"
  /\ UNCHANGED <<call, remote, disk, args, ledger, enumv, cursor, counters, ending,
                 history, lastPersist, saved, durable>>

\* client.get(endpoint, stream=True), client.py lines 170-172 and 149: the
\* body is read by response.content outside _make_request's try block, so a
\* connection lost while the body of content.<format> is read raises a
\* requests exception that is not RevAPIError. download_attachment_content
\* does not catch it and the bare endpoint is not tried.
DownloadFormatBodyFail ==
  /\ pc = "content_fmt"
  /\ Fault
  /\ ops' = ops \cup {Op(oi, ai, CurAtt, "content_body", FALSE)}
  /\ AttachmentFailed
  /\ UNCHANGED <<call, remote, disk, args, ledger, enumv, orders_scanned,
                 attachments_downloaded, history, lastPersist, saved, durable>>

\* lines 130-131: the bare content endpoint is served.
DownloadBareOk ==
  /\ pc = "content_bare"
  /\ ops' = ops \cup {Op(oi, ai, CurAtt, "content_bare", TRUE)}
  /\ got' = "bare"
  /\ pc' = "save"
  /\ UNCHANGED <<call, remote, disk, args, ledger, enumv, oi, ai, counters, ending,
                 history, lastPersist, saved, durable, faults>>

DownloadBareFail ==
  /\ pc = "content_bare"
  /\ Fault
  /\ ops' = ops \cup {Op(oi, ai, CurAtt, "content_bare", FALSE)}
  /\ AttachmentFailed
  /\ UNCHANGED <<call, remote, disk, args, ledger, enumv, orders_scanned,
                 attachments_downloaded, history, lastPersist, saved, durable>>

\* sync, lines 199-205: save_attachment returns, the file holds the bytes.
SaveAttachmentOk ==
  /\ pc = "save"
  /\ files' = [files EXCEPT ![CurAtt] = "full"]
  /\ saved' = saved \cup {CurAtt}
  /\ ops' = ops \cup {Op(oi, ai, CurAtt, "save", TRUE)}
  /\ pc' = "mark"
  /\ UNCHANGED <<call, remote, indexFile, metaFiles, args, ledger, enumv, cursor,
                 counters, ending, history, lastPersist, durable, faults>>

\* A file write cut short by an error or by the process ending: open(.., "wb")
\* may already have truncated the file.
CutShort(a) == {files, [files EXCEPT ![a] = "partial"]}

\* SaveAttachmentFail with the error swallowed: sync goes on to mark_downloaded.
SaveAttachmentFail_Swallowed ==
  /\ pc = "save"
  /\ Fault
  /\ files' \in CutShort(CurAtt)
  /\ ops' = ops \cup {Op(oi, ai, CurAtt, "save", FALSE)}
  /\ pc' = "mark"
  /\ UNCHANGED <<call, remote, indexFile, metaFiles, args, ledger, enumv, cursor,
                 counters, ending, history, lastPersist, saved, durable>>

\* save_attachment raises (mkdir, open or write).
SaveAttachmentFail ==
  /\ pc = "save"
  /\ Fault
  /\ files' \in CutShort(CurAtt)
  /\ ops' = ops \cup {Op(oi, ai, CurAtt, "save", FALSE)}
  /\ AttachmentFailed
  /\ UNCHANGED <<call, remote, indexFile, metaFiles, args, ledger, enumv,
                 orders_scanned, attachments_downloaded, history, lastPersist,
                 saved, durable>>

\* MarkDownloaded without the in-memory add.
MarkDownloaded_FileOnly ==
  /\ pc = "mark"
  /\ ops' = ops \cup {Op(oi, ai, CurAtt, "mark", TRUE)}
  /\ lastPersist' = "pending"
  /\ pc' = "persist"
  /\ UNCHANGED <<call, remote, disk, args, ledger, enumv, cursor, counters, ending,
                 history, saved, durable, faults>>

\* mark_downloaded, line 77.
MarkDownloaded ==
  /\ pc = "mark"
  /\ ledger' = ledger \cup {CurAtt}
  /\ ops' = ops \cup {Op(oi, ai, CurAtt, "mark", TRUE)}
  /\ lastPersist' = "pending"
  /\ pc' = "persist"
  /\ UNCHANGED <<call, remote, disk, args, enumv, cursor, counters, ending, history,
                 saved, durable, faults>>

\* sync, lines 209-212, once mark_downloaded has returned: the [OK] line
\* encodes attachment.name, which raises AttributeError when the name is None.
AfterMark ==
  /\ attachments_downloaded' = attachments_downloaded + 1
  /\ failures' = IF AttName(CurAtt) = {}
                   THEN Append(failures, <<"att", oi, ai>>)
                   ELSE failures
  /\ GoAtt(ai + 1)

\* _save_index, line 53: open(index_file, "w") leaves an empty file.
SaveIndexOpen ==
  /\ pc = "persist"
  /\ indexFile' = Corrupt
  /\ pc' = "dump"
  /\ UNCHANGED <<call, remote, files, metaFiles, args, ledger, enumv, cursor,
                 counters, ending, ops, history, lastPersist, saved, durable,
                 faults>>

\* _save_index, lines 55-56: open raises IOError, which is logged.
SaveIndexOpenFail ==
  /\ pc = "persist"
  /\ Fault
  /\ lastPersist' = "failed"
  /\ AfterMark
  /\ UNCHANGED <<call, remote, disk, args, ledger, enumv, orders_scanned, ops,
                 history, saved, durable>>

\* SaveIndexDump writing the newly marked id alone.
SaveIndexDump_OnlyNewId ==
  /\ pc = "dump"
  /\ indexFile' = Document({CurAtt})
  /\ lastPersist' = "ok"
  /\ durable' = durable \cup {CurAtt}
  /\ AfterMark
  /\ UNCHANGED <<call, remote, files, metaFiles, args, ledger, enumv,
                 orders_scanned, ops, history, saved, faults>>

\* _save_index, line 54: json.dump writes the whole in-memory set.
SaveIndexDump ==
  /\ pc = "dump"
  /\ indexFile' = Document(ledger)
  /\ lastPersist' = "ok"
  /\ durable' = durable \cup {CurAtt}
  /\ AfterMark
  /\ UNCHANGED <<call, remote, files, metaFiles, args, ledger, enumv,
                 orders_scanned, ops, history, saved, faults>>

\* SaveIndexDumpFail with the IOError leaving mark_downloaded: the
\* attachment's handler takes it.
SaveIndexDumpFail_Raises ==
  /\ pc = "dump"
  /\ Fault
  /\ lastPersist' = "failed"
  /\ AttachmentFailed
  /\ UNCHANGED <<call, remote, disk, args, ledger, enumv, orders_scanned,
                 attachments_downloaded, ops, history, saved, durable>>

\* _save_index, lines 55-56: the write raises IOError, which is logged.
SaveIndexDumpFail ==
  /\ pc = "dump"
  /\ Fault
  /\ lastPersist' = "failed"
  /\ AfterMark
  /\ UNCHANGED <<call, remote, disk, args, ledger, enumv, orders_scanned, ops,
                 history, saved, durable>>

\* The process ends where it stands; what is on disk stays.
Stop(how, code) ==
  /\ pc # "idle"
  /\ pc' = "idle"
  /\ end' = how
  /\ exitCode' = code
  /\ IF pc = "save" THEN files' \in CutShort(CurAtt) ELSE files' = files
  /\ UNCHANGED <<call, remote, indexFile, metaFiles, args, ledger, enumv, cursor,
                 counters, ops, history, lastPersist, saved, durable, faults>>

\* The process is killed or the machine goes down.
Crash == Stop("crash", {})

\* KeyboardInterrupt passes both `except Exception` handlers; sync, lines 253-255.
Interrupt == Stop("interrupt", {1})

Next ==
  \/ \E a \in ArgSets : StartSync(a)
  \/ \E a \in ArgSets : StartSyncUnreadable(a)
  \/ SyncNotConfigured
  \/ ListOrdersPage
  \/ ListOrdersFail
  \/ FilterCompletedOrders
  \/ GetOrderDetailsOk
  \/ GetOrderDetailsFail
  \/ SaveOrderMetadataOk
  \/ SaveOrderMetadataFail
  \/ CheckAttachment
  \/ GetAttachmentMetadataOk
  \/ GetAttachmentMetadataFail
  \/ DownloadFormatOk
  \/ DownloadFormatFail
  \/ DownloadFormatBodyFail
  \/ DownloadBareOk
  \/ DownloadBareFail
  \/ SaveAttachmentOk
  \/ SaveAttachmentFail
  \/ MarkDownloaded
  \/ SaveIndexOpen
  \/ SaveIndexOpenFail
  \/ SaveIndexDump
  \/ SaveIndexDumpFail
  \/ Crash
  \/ Interrupt

Spec == Init /\ [][Next]_vars

\* The steps of a run in which the remote and the disk serve the call. sync
\* is one thread and every call returns, so a step that can be taken is taken.
Serve ==
  \/ ListOrdersPage
  \/ FilterCompletedOrders
  \/ GetOrderDetailsOk
  \/ SaveOrderMetadataOk
  \/ CheckAttachment
  \/ GetAttachmentMetadataOk
  \/ DownloadFormatOk
  \/ DownloadBareOk
  \/ SaveAttachmentOk
  \/ MarkDownloaded
  \/ SaveIndexOpen
  \/ SaveIndexDump

SpecFair == Spec /\ WF_vars(Serve)

\* -------------------------------------------- get_all_orders on its own

\* The listings of n records: record i is order i, any placed_on or none.
Listings(n) ==
  {[i \in 1..n |-> [num |-> i, status |-> "Complete", placed |-> d[i]]] :
     d \in [1..n -> {{}, {1}, {2}, {3}}]}

\* What a page's response may declare as total_count: nothing, or any count
\* up to one more than the listing can hold.
Totals == {{}} \cup {{n} : n \in 0..(MaxRecords + 1)}

\* get_all_orders is about to request page 0 of an arbitrary listing, with
\* or without a cutoff. Only a page holding records has its total_count read.
InitEnum ==
  /\ listing \in UNION {Listings(n) : n \in 0..MaxRecords}
  /\ declared \in {d \in [Pages(MaxRecords) -> Totals] :
                     \A p \in Pages(MaxRecords) :
                       p * PageSize >= Len(listing) => d[p] = {}}
  /\ args \in [dry_run : {FALSE}, include_media : {TRUE},
               include_transcripts : {TRUE}, since : {{}, {2}}]
  /\ pc = "enum"
  /\ run = 1
  /\ end = "running"
  /\ indexFile = Missing
  /\ files = NoFiles
  /\ metaFiles = {}
  /\ ledger = {}
  /\ page = 0
  /\ all_orders = <<>>
  /\ requested = <<>>
  /\ oi = 0
  /\ ai = 0
  /\ got = "none"
  /\ orders_scanned = 0
  /\ attachments_downloaded = 0
  /\ failures = <<>>
  /\ exitCode = {}
  /\ ops = {}
  /\ loaded = {}
  /\ loadOk = TRUE
  /\ lastPersist = "none"
  /\ prev = [marked |-> {}, lastPersist |-> "none", completed |-> FALSE]
  /\ disk0 = <<Missing, NoFiles, {}>>
  /\ saved = {}
  /\ durable = {}
  /\ faults = 0
  /\ call = NoCall

NextEnum ==
  \/ ListOrdersPage
  \/ ListOrdersFail

SpecEnum == InitEnum /\ [][NextEnum]_vars

\* get_all_orders with every page fetch returning: `while True` has no other
\* blocking call, so an enabled page request is eventually made.
SpecEnumFair == SpecEnum /\ WF_vars(ListOrdersPage)

\* ------------------------------------- sync over one order of every category

\* The export root is empty, no process runs, and the remote serves
\* CategoryListing.
InitCategories ==
  /\ listing = CategoryListing
  /\ declared = [p \in Pages(Len(CategoryListing)) |-> {Len(CategoryListing)}]
  /\ indexFile = Missing
  /\ files = NoFiles
  /\ metaFiles = {}
  /\ pc = "idle"
  /\ args = [dry_run |-> FALSE, include_media |-> TRUE,
             include_transcripts |-> TRUE, since |-> {}]
  /\ ledger = {}
  /\ page = 0
  /\ all_orders = <<>>
  /\ requested = <<>>
  /\ oi = 0
  /\ ai = 0
  /\ got = "none"
  /\ orders_scanned = 0
  /\ attachments_downloaded = 0
  /\ failures = <<>>
  /\ exitCode = {}
  /\ end = "none"
  /\ ops = {}
  /\ run = 0
  /\ loaded = {}
  /\ loadOk = TRUE
  /\ lastPersist = "none"
  /\ prev = [marked |-> {}, lastPersist |-> "none", completed |-> FALSE]
  /\ disk0 = <<Missing, NoFiles, {}>>
  /\ saved = {}
  /\ durable = {}
  /\ faults = 0
  /\ call = NoCall

SpecCategories == InitCategories /\ [][Next]_vars

\* --------------------- sync over a transcript whose name is not its format

\* One completed order holding a5, a transcript named notes.docx whose
\* preferred format is json and whose name ends in .docx, and the media
\* file a2, which has no preferred format.
FallbackListing == << [num |-> 5, status |-> "Complete", placed |-> {3}] >>

\* The export root is empty, no process runs, and the remote serves
\* FallbackListing.
InitFallback ==
  /\ listing = FallbackListing
  /\ declared = [p \in Pages(Len(FallbackListing)) |-> {Len(FallbackListing)}]
  /\ indexFile = Missing
  /\ files = NoFiles
  /\ metaFiles = {}
  /\ pc = "idle"
  /\ args = [dry_run |-> FALSE, include_media |-> TRUE,
             include_transcripts |-> TRUE, since |-> {}]
  /\ ledger = {}
  /\ page = 0
  /\ all_orders = <<>>
  /\ requested = <<>>
  /\ oi = 0
  /\ ai = 0
  /\ got = "none"
  /\ orders_scanned = 0
  /\ attachments_downloaded = 0
  /\ failures = <<>>
  /\ exitCode = {}
  /\ end = "none"
  /\ ops = {}
  /\ run = 0
  /\ loaded = {}
  /\ loadOk = TRUE
  /\ lastPersist = "none"
  /\ prev = [marked |-> {}, lastPersist |-> "none", completed |-> FALSE]
  /\ disk0 = <<Missing, NoFiles, {}>>
  /\ saved = {}
  /\ durable = {}
  /\ faults = 0
  /\ call = NoCall

SpecFallback == InitFallback /\ [][Next]_vars

\* ------------------------------------------ StorageManager on its own

\* The ids the StorageManager is asked about and told to mark.
StorageIds == {"a1", "a2", "a3"}

\* The ledger files a StorageManager can find under its export root.
IndexFiles ==
  {Missing, Corrupt, NotObject, BadValue, NotText, NoKey, StringValue}
    \cup {Document(ids) : ids \in SUBSET StorageIds}

\* The last call made on the export root's StorageManager.
StorageCall(fn, id, raised, result) ==
  [fn |-> fn, id |-> id, raised |-> raised, result |-> result]

\* The export root holds any ledger file and no StorageManager exists.
InitStorage ==
  /\ indexFile \in IndexFiles
  /\ listing = SyncListing
  /\ declared = [p \in Pages(Len(SyncListing)) |-> {Len(SyncListing)}]
  /\ files = NoFiles
  /\ metaFiles = {}
  /\ pc = "idle"
  /\ args = [dry_run |-> FALSE, include_media |-> TRUE,
             include_transcripts |-> TRUE, since |-> {}]
  /\ ledger = {}
  /\ page = 0
  /\ all_orders = <<>>
  /\ requested = <<>>
  /\ oi = 0
  /\ ai = 0
  /\ got = "none"
  /\ orders_scanned = 0
  /\ attachments_downloaded = 0
  /\ failures = <<>>
  /\ exitCode = {}
  /\ end = "none"
  /\ ops = {}
  /\ run = 0
  /\ loaded = {}
  /\ loadOk = TRUE
  /\ lastPersist = "none"
  /\ prev = [marked |-> {}, lastPersist |-> "none", completed |-> FALSE]
  /\ disk0 = <<indexFile, NoFiles, {}>>
  /\ saved = {}
  /\ durable = {}
  /\ faults = 0
  /\ call = NoCall

\* What the storage actions leave alone.
storagefixed == <<remote, files, metaFiles, args, enumv, cursor, counters,
                  ending, saved, durable>>

\* StorageManager.__init__, lines 28-31: _load_index either fills the set or
\* lets an exception out of the constructor, and then no object exists.
\* prev.completed records that every persist of the previous object succeeded.
Construct(readable) ==
  /\ pc = "idle"
  /\ run < MaxRuns
  /\ run' = run + 1
  /\ pc' = IF LoadError(indexFile, readable) = {} THEN "open" ELSE "idle"
  /\ ledger' = LoadIndex(indexFile, readable)
  /\ loaded' = LoadIndex(indexFile, readable)
  /\ loadOk' = readable
  /\ ops' = {}
  /\ lastPersist' = "none"
  /\ prev' = [marked |-> ledger, lastPersist |-> lastPersist,
              completed |-> \A o \in ops : o.ok]
  /\ disk0' = disk
  /\ call' = StorageCall("StorageManager", "", LoadError(indexFile, readable), {})
  /\ UNCHANGED <<indexFile, storagefixed>>

NewStorageManager ==
  /\ Construct(TRUE)
  /\ UNCHANGED faults

\* _load_index, lines 43-44: the file exists and reading it raises IOError.
NewStorageManagerUnreadable ==
  /\ indexFile.state # "missing"
  /\ Fault
  /\ Construct(FALSE)

\* StorageManager.is_downloaded
IsDownloaded(id) ==
  /\ pc = "open"
  /\ call' = StorageCall("is_downloaded", id, {}, {id \in ledger})
  /\ UNCHANGED <<indexFile, pc, ledger, ops, history, lastPersist, faults,
                 storagefixed>>

\* MarkDownloadedOk writing the newly marked id alone.
MarkDownloadedOk_OnlyNewId(id) ==
  /\ pc = "open"
  /\ ledger' = ledger \cup {id}
  /\ indexFile' = Document({id})
  /\ ops' = ops \cup {Op(0, 0, id, "mark", TRUE)}
  /\ lastPersist' = "ok"
  /\ call' = StorageCall("mark_downloaded", id, {}, {})
  /\ UNCHANGED <<pc, history, faults, storagefixed>>

\* MarkDownloadedOk assigning the set instead of adding to it.
MarkDownloadedOk_Replaces(id) ==
  /\ pc = "open"
  /\ ledger' = {id}
  /\ indexFile' = Document(ledger')
  /\ ops' = ops \cup {Op(0, 0, id, "mark", TRUE)}
  /\ lastPersist' = "ok"
  /\ call' = StorageCall("mark_downloaded", id, {}, {})
  /\ UNCHANGED <<pc, history, faults, storagefixed>>

\* mark_downloaded, lines 77-78, with _save_index writing the whole set.
MarkDownloadedOk(id) ==
  /\ pc = "open"
  /\ ledger' = ledger \cup {id}
  /\ indexFile' = Document(ledger')
  /\ ops' = ops \cup {Op(0, 0, id, "mark", TRUE)}
  /\ lastPersist' = "ok"
  /\ call' = StorageCall("mark_downloaded", id, {}, {})
  /\ UNCHANGED <<pc, history, faults, storagefixed>>

\* mark_downloaded with _save_index failing: open raises IOError and the
\* file stays, or the write raises after open has emptied the file. Lines
\* 55-56 log the error.
MarkDownloadedPersistFails(id) ==
  /\ pc = "open"
  /\ Fault
  /\ ledger' = ledger \cup {id}
  /\ indexFile' \in {indexFile, Corrupt}
  /\ ops' = ops \cup {Op(0, 0, id, "mark", FALSE)}
  /\ lastPersist' = "failed"
  /\ call' = StorageCall("mark_downloaded", id, {}, {})
  /\ UNCHANGED <<pc, history, storagefixed>>

\* The process that holds the StorageManager ends.
Release ==
  /\ pc = "open"
  /\ pc' = "idle"
  /\ UNCHANGED <<call, indexFile, ledger, ops, history, lastPersist, faults,
                 storagefixed>>

NextStorage ==
  \/ NewStorageManager
  \/ NewStorageManagerUnreadable
  \/ \E id \in StorageIds : IsDownloaded(id)
  \/ \E id \in StorageIds : MarkDownloadedOk(id)
  \/ \E id \in StorageIds : MarkDownloadedPersistFails(id)
  \/ Release

SpecStorage == InitStorage /\ [][NextStorage]_vars

\* ------------------------------------------------ the naming functions

\* Longest chain of suffixes a drawn file name carries.
MaxSuffixes == 3
\* Longest preferred_formats list a drawn call passes.
MaxPreferred == 2

\* The suffixes drawn file names are built from.
Suffixes ==
  << <<".", "d", "o", "c", "x">>,
     <<".", "s", "r", "t">>,
     <<".", "t", "x", "t">>,
     <<".", "j", "s", "o", "n">>,
     <<".", "m", "p", "4">>,
     <<".", "p", "d", "f">>,
     <<".", "S", "R", "T">> >>

RECURSIVE Chains(_)
Chains(n) ==
  IF n = 0 THEN {<<>>}
  ELSE LET shorter == Chains(n - 1)
       IN  shorter \cup {c \o Suffixes[i] : c \in shorter, i \in DOMAIN Suffixes}

\* File names: a base name, empty or not, followed by up to MaxSuffixes suffixes.
FileNames == {b \o c : b \in {<<>>, <<"a">>}, c \in Chains(MaxSuffixes)}

\* Display names that end in a dot, hold a space or a character
\* sanitize_filename replaces, or carry an upper-case or a two-part suffix.
OddNames ==
  { <<"t", "r", "a", "i", "l", "i", "n", "g", ".">>,
    <<"n", "o", " ", "e", "x", "t">>,
    <<"a", ".", "b", " ", "c">>,
    <<"a", ".", "T", "X", "T">>,
    <<"x", ".", "t", "a", "r", ".", "g", "z">>,
    <<".", "h", "i", "d", "d", "e", "n">>,
    <<"a", ".", ".">>,
    <<"m", "y", ":", "f", "i", "l", "e", "?", ".", "m", "4", "a", ".">>,
    <<" ", ".", "a", ".", " ">> }

\* "type" and "name" values an attachment is classified from; {} is None.
TypeValues ==
  {{}} \cup {{t} : t \in
  { <<"t", "r", "a", "n", "s", "c", "r", "i", "p", "t">>,
    <<"C", "a", "p", "t", "i", "o", "n">>,
    <<"M", "E", "D", "I", "A">>,
    <<"d", "o", "c", "u", "m", "e", "n", "t">>,
    <<"v", "i", "d", "e", "o">>,
    <<>> }}
NameValues ==
  {{}} \cup {{n} : n \in
  { <<"i", "n", "t", "e", "r", "v", "i", "e", "w", ".", "m", "p", "4">>,
    <<"n", "o", "t", "e", "s", ".", "d", "o", "c", "x">>,
    <<"s", "u", "b", "s", ".", "V", "T", "T">>,
    <<"n", "a", "v", "i", "g", "a", "t", "i", "o", "n">>,
    <<"r", "e", "p", "o", "r", "t", ".", "p", "d", "f">>,
    <<"S", "u", "b", "t", "i", "t", "l", "e", "_", "E", "N">>,
    <<"c", "a", "l", "l", ".", "w", "a", "v">>,
    <<"t", "r", "a", "n", "s", "c", "r", "i", "p", "t", ".", "j", "s", "o", "n">>,
    <<"a">>,
    <<>> }}

Categories == {"transcript", "caption", "media", "other"}
Formats == {"json", "txt", "srt"}
Endpoints == Formats \cup {"bare"}

RECURSIVE FormatLists(_)
FormatLists(n) ==
  IF n = 0 THEN {<<>>}
  ELSE LET shorter == FormatLists(n - 1)
       IN  shorter \cup {Append(l, f) : l \in shorter, f \in Formats}

\* What a GET of a content endpoint does: the bytes, RevAPIError from
\* _make_request, or a requests exception raised by response.content while
\* the body is read (client.py 149), which is not a RevAPIError.
Outcomes == {"ok", "api_error", "body_error"}

\* n times the character c.
Repeat(c, n) == [i \in 1..n |-> c]

\* Display names longer than the cap of sanitize_filename: one whose 200th
\* character is a dot, one with replaced characters at both ends, and one
\* that is 200 characters long once stripped.
LongNames ==
  { Repeat("a", 199) \o <<".", " ", "b">>,
    <<"<">> \o Repeat("a", 203) \o <<"?">>,
    <<" ">> \o Repeat("b", 200) \o <<".">> }

\* The attachments save_attachment is called with: "id" values (the tests
\* use ids such as att_001), display names, None and "" included, a
\* category, an extension and the bytes.
SaveIds == {<<"a", "t", "t">>, <<"a", "t", "t", "_", "1">>, <<"b", "2">>}
SaveNames ==
  {{}, {<<>>}, {<<"x", ".", "t", "x", "t">>}, {<<"1", "_", "x", ".", "t", "x", "t">>}} \cup {{n} : n \in LongNames}
SaveAtts ==
  [id : SaveIds, name : SaveNames, attachment_type : Categories,
   file_extension : {<<".", "j", "s", "o", "n">>, <<".", "b", "i", "n">>}]

\* Two attachments with different ids saved into one order, one after the
\* other; `content` are the bytes passed with each, `written` the paths
\* returned so far and `files` the bytes each path holds.
SaveCalls ==
  {[fn |-> "save_attachment", order_number |-> OrderNumber(1), atts |-> <<x, y>>,
    content |-> <<"one", "two">>, written |-> <<>>, files |-> <<>>,
    result |-> {}] : <<x, y>> \in {p \in SaveAtts \X SaveAtts : p[1].id # p[2].id}}

ClassifyCalls ==
  [fn : {"classify_attachment"}, type : TypeValues, name : NameValues, result : {{}}]
ExtensionCalls ==
  [fn : {"get_file_extension"},
   name : {{}, {<<>>}} \cup {{n} : n \in FileNames \cup OddNames},
   attachment_type : Categories,
   format : {{}, {<<>>}, {Chars("json")}, {Chars("srt")}},
   result : {{}}]
SanitizeCalls ==
  [fn : {"sanitize_filename"}, name : FileNames \cup OddNames \cup LongNames,
   result : {{}}]
ScanCalls ==
  [fn : {"_get_real_extension", "_is_viewable"}, name : FileNames, result : {{}}]
DownloadCalls ==
  [fn : {"download_attachment_content"},
   format : {{}} \cup {{f} : f \in Formats},
   preferred_formats : FormatLists(MaxPreferred),
   outcome : [Endpoints -> Outcomes],
   pos : {0},
   attempts : {<<>>},
   result : {{}}]

syncvars == <<remote, disk, pc, args, ledger, enumv, cursor, counters, ending,
              ops, history, lastPersist, saved, durable, faults>>

\* One of the naming functions is about to be called; no sync runs.
InitNaming ==
  /\ call \in ClassifyCalls \cup ExtensionCalls \cup SanitizeCalls
               \cup ScanCalls \cup DownloadCalls \cup SaveCalls
  /\ listing = SyncListing
  /\ declared = [p \in Pages(Len(SyncListing)) |-> {Len(SyncListing)}]
  /\ indexFile = Missing
  /\ files = NoFiles
  /\ metaFiles = {}
  /\ pc = "idle"
  /\ args = [dry_run |-> FALSE, include_media |-> TRUE,
             include_transcripts |-> TRUE, since |-> {}]
  /\ ledger = {}
  /\ page = 0
  /\ all_orders = <<>>
  /\ requested = <<>>
  /\ oi = 0
  /\ ai = 0
  /\ got = "none"
  /\ orders_scanned = 0
  /\ attachments_downloaded = 0
  /\ failures = <<>>
  /\ exitCode = {}
  /\ end = "none"
  /\ ops = {}
  /\ run = 0
  /\ loaded = {}
  /\ loadOk = TRUE
  /\ lastPersist = "none"
  /\ prev = [marked |-> {}, lastPersist |-> "none", completed |-> FALSE]
  /\ disk0 = <<Missing, NoFiles, {}>>
  /\ saved = {}
  /\ durable = {}
  /\ faults = 0

Pending(fn) == call.fn = fn /\ call.result = {}

ClassifyAttachmentCall ==
  /\ Pending("classify_attachment")
  /\ call' = [call EXCEPT !.result = {classify_attachment(call.type, call.name)}]
  /\ UNCHANGED syncvars

GetFileExtensionCall ==
  /\ Pending("get_file_extension")
  /\ call' = [call EXCEPT !.result =
                {get_file_extension(call.name, call.attachment_type, call.format)}]
  /\ UNCHANGED syncvars

SanitizeFilenameCall ==
  /\ Pending("sanitize_filename")
  /\ call' = [call EXCEPT !.result = {sanitize_filename(call.name)}]
  /\ UNCHANGED syncvars

GetRealExtensionCall ==
  /\ Pending("_get_real_extension")
  /\ call' = [call EXCEPT !.result = {get_real_extension(call.name)}]
  /\ UNCHANGED syncvars

IsViewableCall ==
  /\ Pending("_is_viewable")
  /\ call' = [call EXCEPT !.result = {is_viewable(call.name)}]
  /\ UNCHANGED syncvars

\* One client.get(endpoint, stream=True) of download_attachment_content on
\* endpoint e: the bytes are returned, a RevAPIError goes to `caught` when
\* the attempt sits in a try block, and any other exception leaves the call.
Attempt(e, caught) ==
  LET tried == Append(call.attempts, e)
  IN  CASE call.outcome[e] = "ok" ->
             [call EXCEPT !.attempts = tried,
                          !.result = {[kind |-> "bytes", from |-> e]}]
        [] call.outcome[e] = "api_error" /\ caught # {} ->
             [call EXCEPT !.attempts = tried, !.pos = Value(caught)]
        [] OTHER ->
             [call EXCEPT !.attempts = tried,
                          !.result = {[kind |-> "raise", from |-> e]}]

\* download_attachment_content, lines 110-118: `if format:`.
DownloadFormat ==
  /\ Pending("download_attachment_content")
  /\ call.pos = 0
  /\ call.format # {}
  /\ call' = Attempt(Value(call.format), {1})
  /\ UNCHANGED syncvars

\* The option the call stands at once the format stage is over.
Position == IF call.pos = 0 THEN 1 ELSE call.pos

\* lines 121-127: `if preferred_formats: for fmt in preferred_formats`.
DownloadPreferred ==
  /\ Pending("download_attachment_content")
  /\ call.pos >= 1 \/ call.format = {}
  /\ Position <= Len(call.preferred_formats)
  /\ call' = Attempt(call.preferred_formats[Position], {Position + 1})
  /\ UNCHANGED syncvars

\* lines 129-131: the bare endpoint, outside any try block.
DownloadBare ==
  /\ Pending("download_attachment_content")
  /\ call.pos >= 1 \/ call.format = {}
  /\ Position > Len(call.preferred_formats)
  /\ call' = Attempt("bare", {})
  /\ UNCHANGED syncvars

\* StorageManager.save_attachment, lines 142-167, for the next of the two
\* attachments: open(file_path, "wb") replaces whatever the path held.
SaveAttachmentCall ==
  /\ Pending("save_attachment")
  /\ LET i == Len(call.written) + 1
         a == call.atts[i]
         file_path == save_attachment(call.order_number, a.id, a.name,
                                      a.attachment_type, a.file_extension)
         kept == SelectSeq(call.files, LAMBDA f : f.path # file_path)
     IN  call' = [call EXCEPT
                    !.written = Append(call.written, file_path),
                    !.files = Append(kept, [path |-> file_path,
                                            content |-> call.content[i]]),
                    !.result = IF i = Len(call.atts) THEN {"saved"} ELSE {}]
  /\ UNCHANGED syncvars

NextNaming ==
  \/ ClassifyAttachmentCall
  \/ GetFileExtensionCall
  \/ SanitizeFilenameCall
  \/ GetRealExtensionCall
  \/ IsViewableCall
  \/ DownloadFormat
  \/ DownloadPreferred
  \/ DownloadBare
  \/ SaveAttachmentCall

SpecNaming == InitNaming /\ [][NextNaming]_vars

\* ------------------------------------------------------------------ claims

\* <<0, 1, ..., n>>; the empty sequence for n = -1.
UpTo(n) == [i \in 1..(n + 1) |-> i - 1]

\* Records the remote serves on pages 0..p.
Served(p) == Min((p + 1) * PageSize, Len(listing))

\* Page p ends an enumeration without cutoff: it is empty, or the records
\* produced so far reach the total_count it declares.
EndsAt(p) ==
  \/ p * PageSize >= Len(listing)
  \/ Served(p) >= (IF declared[p] = {} THEN 0 ELSE CHOOSE n \in declared[p] : TRUE)

\* The first page that ends the enumeration.
LastPage ==
  CHOOSE p \in Pages(Len(listing)) : EndsAt(p) /\ \A q \in 0..(p - 1) : ~EndsAt(q)

\* Record i of the listing has a placed_on earlier than the cutoff.
Older(i) == \E t \in args.since : \E d \in listing[i].placed : d < t

\* K is the first record of the listing older than the cutoff.
IsK(k) == k \in 1..Len(listing) /\ Older(k) /\ \A j \in 1..(k - 1) : ~Older(j)

PageOf(k) == (k - 1) \div PageSize

IsPrefix(s, t) == Len(s) <= Len(t) /\ s = SubSeq(t, 1, Len(s))

\* The dated records of the listing come newest first.
NewestFirst ==
  \A i, j \in 1..Len(listing) :
    i < j => \A d \in listing[i].placed : \A e \in listing[j].placed : d >= e

\* Every record is dated and every page holding records declares a total_count.
Announced ==
  /\ \A i \in 1..Len(listing) : listing[i].placed # {}
  /\ \A p \in Pages(Len(listing)) : p * PageSize < Len(listing) => declared[p] # {}

\* C6 as stated: with a cutoff, over a listing delivered newest first in
\* which K is the first record older than the cutoff, get_all_orders returns
\* exactly the records before K and requests no page after the one holding K
\* (checked on the listings whose records are all dated and whose pages all
\* declare a total_count).
C6_CutoffExact ==
  \A k \in 1..Len(listing) :
    (pc = "filter" /\ NewestFirst /\ Announced /\ IsK(k)) =>
      /\ all_orders = SubSeq(listing, 1, k - 1)
      /\ \A i \in 1..Len(requested) : requested[i] <= PageOf(k)

\* C6, amended: with a cutoff and K the first record older than it, the
\* returned list never holds K or a later record and no page after K's page
\* is requested; it is exactly the records before K whenever no page before
\* K's page ends the enumeration by its declared total_count, and otherwise
\* the records of the pages fetched, a prefix of the records before K.
C6_CutoffUnlessTotalReached ==
  \A k \in 1..Len(listing) :
    (pc = "filter" /\ IsK(k)) =>
      /\ IsPrefix(all_orders, SubSeq(listing, 1, k - 1))
      /\ \A i \in 1..Len(requested) : requested[i] <= PageOf(k)
      /\ (\A p \in 0..(PageOf(k) - 1) : ~EndsAt(p)) =>
           /\ all_orders = SubSeq(listing, 1, k - 1)
           /\ requested = UpTo(PageOf(k))

\* K lies on a later page, after a page boundary, and records precede it.
C6_Witness ==
  \E k \in 2..Len(listing) :
    /\ pc = "filter"
    /\ NewestFirst
    /\ IsK(k)
    /\ PageOf(k) >= 1
    /\ \A p \in 0..(PageOf(k) - 1) : ~EndsAt(p)
    /\ all_orders = SubSeq(listing, 1, k - 1)

\* C7: without a cutoff get_all_orders requests pages 0, 1, 2, ... in order,
\* each once, up to and including the first page that is empty or on which
\* the records produced reach the declared total_count, and returns the
\* concatenation of the pages received.
C7_PagesInOrderUntilTotal ==
  args.since = {} =>
    /\ pc = "enum" =>
         /\ requested = UpTo(page - 1)
         /\ all_orders = SubSeq(listing, 1, Served(page - 1))
         /\ \A q \in 0..(page - 1) : ~EndsAt(q)
    /\ pc = "filter" =>
         /\ requested = UpTo(LastPage)
         /\ all_orders = SubSeq(listing, 1, Served(LastPage))

\* The enumeration ended on its second page because the total was reached.
C7_Witness ==
  /\ pc = "filter"
  /\ args.since = {}
  /\ requested = <<0, 1>>
  /\ Len(all_orders) > PageSize

\* The calls that fetch, write or mark an attachment.
GatedOps ==
  {"meta", "content_fmt", "content_body", "content_bare", "save", "mark"}

\* The current run has fetched or written attachment a.
Touched(a) ==
  \E o \in ops :
    o.id = a /\ o.op \in {"meta", "content_fmt", "content_body", "content_bare", "save"}

\* C1 as stated: every attachment the previous run fetched, wrote and marked
\* is in the ledger this run loaded, and this run neither fetches nor writes it
\* (checked after a previous run that ran to completion, in a run that could
\* read the ledger file).
C1_MarkedSkippedNextRun ==
  \A a \in prev.marked :
    (prev.completed /\ loadOk) => (a \in loaded /\ ~Touched(a))

\* C1, amended: every attachment the previous run fetched, wrote and marked
\* is in the ledger this run loaded, and this run neither fetches nor writes
\* it, provided the last mark_downloaded of the previous run persisted the
\* ledger successfully and this run could read the ledger file.
C1_MarkedSkippedIfPersisted ==
  \A a \in prev.marked :
    (prev.lastPersist = "ok" /\ loadOk) => (a \in loaded /\ ~Touched(a))

\* A second, non-dry run has reached an attachment the first run marked and
\* persisted, and skipped it.
C1_Witness ==
  /\ run = 2
  /\ ~args.dry_run
  /\ prev.completed
  /\ prev.lastPersist = "ok"
  /\ loadOk
  /\ \E o \in ops : o.op = "hit" /\ o.id \in prev.marked

\* C2: no attachment-metadata fetch, content fetch, save_attachment or
\* mark_downloaded is issued for an id that is in the ledger at that moment.
C2_LedgerGatesFetch ==
  [][\A o \in ops' \ ops : o.op \in GatedOps => o.id \notin ledger]_vars

\* sync has reached an attachment whose id was in the ledger.
C2_Witness == \E o \in ops : o.op = "hit"

\* C3: an id this run added to the ledger has had save_attachment return in
\* this run and its file is complete; mark_downloaded is reached only then.
C3_MarkAfterWrite ==
  /\ \A a \in ledger \ loaded :
       /\ \E o \in ops : o.id = a /\ o.op = "save" /\ o.ok
       /\ files[a] = "full"
  /\ pc = "mark" =>
       /\ Op(oi, ai, CurAtt, "save", TRUE) \in ops
       /\ files[CurAtt] = "full"

\* mark_downloaded has just added an id.
C3_Witness == pc = "persist" /\ CurAtt \in ledger \ loaded

\* C4: an id whose mark_downloaded returned after a successful persist is in
\* the ledger of every later run that could read the ledger file.
C4_DurableMarkSurvives ==
  (pc # "idle" /\ loadOk) => durable \subseteq ledger

\* C5 as stated: across runs, save_attachment completes for an id at most once.
C5_AtMostOneWrite ==
  [][\A o \in ops' \ ops : (o.op = "save" /\ o.ok) => o.id \notin saved]_vars

\* C5, amended: within one run save_attachment completes for an id at most
\* once, and never for an id that is in the ledger the run loaded.
C5_AtMostOneWritePerRun ==
  \A a \in AttIds :
    LET done == {o \in ops : o.op = "save" /\ o.ok /\ o.id = a}
    IN  /\ Cardinality(done) <= 1
        /\ a \in loaded => done = {}

\* An id written in this run is reached a second time in the same run, and
\* an id written by an earlier run is reached again.
C5_Witness ==
  /\ \E o \in ops : o.op = "hit" /\ Op(1, 1, o.id, "save", TRUE) \in ops
  /\ \E o \in ops : o.op = "hit" /\ o.id \in loaded \cap saved

\* C8: once a page fetch has failed the run is over with exit code 1, no list
\* is returned, and the run has fetched no detail, written no file and left
\* the ledger as it found it, in memory and on disk.
C8_EnumerationFailureFatal ==
  (\E o \in ops : o.op = "list" /\ ~o.ok) =>
    /\ pc = "idle"
    /\ end = "fatal"
    /\ exitCode = {1}
    /\ all_orders = <<>>
    /\ \A o \in ops : o.op = "list"
    /\ ledger = loaded
    /\ disk = disk0

\* The fetch of a later page failed, over a ledger that holds ids.
C8_Witness ==
  /\ end = "fatal"
  /\ Len(requested) >= 2
  /\ loaded # {}

\* An attachment's metadata fetch, content fetch or file write has failed.
AttFail(o) == o.op \in {"meta", "content_body", "content_bare", "save"} /\ ~o.ok

\* sync has reached attachment j of completed order i.
Reached(i, j) ==
  \E o \in ops : o.oi = i /\ o.ai = j /\ o.op \in {"hit", "excluded", "would", "miss"}

\* The detail of completed order i has been requested.
Asked(i) == \E o \in ops : o.oi = i /\ o.op = "detail"

\* C9: a failure while processing one attachment is in the failure list and
\* is not fatal; when the run completes, every later attachment of the same
\* order has been reached and every later completed order has been asked for.
C9_AttachmentFailureIsolated ==
  \A o \in ops :
    AttFail(o) =>
      /\ <<"att", o.oi, o.ai>> \in Range(failures)
      /\ end # "fatal"
      /\ end = "done" =>
           /\ \A j \in (o.ai + 1)..Len(OrderAttachments(Completed[o.oi].num)) :
                Reached(o.oi, j)
           /\ \A i \in (o.oi + 1)..Len(Completed) : Asked(i)

\* The first attachment of the first order failed, and the run went on to
\* its sibling and to the next order.
C9_Witness ==
  /\ end = "done"
  /\ \E o \in ops : AttFail(o) /\ o.oi = 1 /\ o.ai = 1
  /\ Reached(1, 2)
  /\ Reached(2, 1)

\* C10: an order whose detail fetch failed has none of its attachments
\* processed, is not counted as scanned and has one entry in the failure
\* list; the failure is not fatal and, when the run completes, every later
\* completed order has been asked for.
C10_DetailFailureAbortsRecord ==
  /\ orders_scanned = Cardinality({o \in ops : o.op = "detail" /\ o.ok})
  /\ \A o \in ops :
       (o.op = "detail" /\ ~o.ok) =>
         /\ \A r \in ops : r.oi = o.oi => r = o
         /\ Cardinality({n \in 1..Len(failures) : failures[n] = <<"order", o.oi, 0>>}) = 1
         /\ end # "fatal"
         /\ end = "done" => \A i \in (o.oi + 1)..Len(Completed) : Asked(i)

\* The first order's detail fetch failed and the second order was processed.
C10_Witness ==
  /\ end = "done"
  /\ Op(1, 0, "", "detail", FALSE) \in ops
  /\ Op(2, 0, "", "detail", TRUE) \in ops
  /\ Reached(2, 1)

\* The calls a dry run must not make.
StorageOps == GatedOps \cup {"savemeta"}

\* C11: a dry-run sync issues no save_order_metadata, save_attachment,
\* mark_downloaded, attachment-metadata fetch or content fetch, and at every
\* point of the run, its end included, the ledger in memory equals the ledger
\* it loaded and the disk (ledger file, attachment files, metadata files) is
\* as the run found it.
C11_DryRunLeavesStorage ==
  (run >= 1 /\ args.dry_run) =>
    /\ \A o \in ops : o.op \notin StorageOps
    /\ ledger = loaded
    /\ disk = disk0

\* A dry run over a ledger that holds ids ran to completion, having skipped a
\* marked attachment and announced one it would download.
C11_Witness ==
  /\ end = "done"
  /\ args.dry_run
  /\ loaded # {}
  /\ \E o \in ops : o.op = "hit"
  /\ \E o \in ops : o.op = "would"

\* C12: a sync that runs to completion exits with code 0, with or without
\* failures and also when no order is completed; a sync that finds no
\* credentials, is interrupted or hits a fatal error exits with code 1; and
\* these are the only ways it exits.
C12_ExitCodes ==
  /\ end \in {"done", "nothing"} => exitCode = {0}
  /\ end \in {"unconfigured", "interrupt", "fatal"} => exitCode = {1}
  /\ exitCode = {0} => end \in {"done", "nothing"}
  /\ exitCode = {1} => end \in {"unconfigured", "interrupt", "fatal"}
  /\ exitCode \in {{}, {0}, {1}}
  /\ end = "fatal" => \E o \in ops : o.op = "list" /\ ~o.ok

\* A run with an order failure and an attachment failure ran to completion
\* and exited with code 0.
C12_Witness ==
  /\ end = "done"
  /\ exitCode = {0}
  /\ \E n \in 1..Len(failures) : failures[n][1] = "order"
  /\ \E n \in 1..Len(failures) : failures[n][1] = "att"

\* The category sync gave attachment a.
Category(a) == ClassifyAttachment(a)

\* C13: no attachment classified media is fetched, written or marked while
\* media is excluded, none classified transcript or caption while
\* transcripts are excluded, and an attachment classified other is never
\* left out by a toggle: its file and its ledger entry are as the run found
\* them for an excluded attachment.
C13_ExcludedUntouched ==
  /\ \A o \in ops :
       o.op \in GatedOps \cup {"would"} =>
         /\ Category(o.id) = "media" => args.include_media
         /\ Category(o.id) \in {"transcript", "caption"} => args.include_transcripts
  /\ \A o \in ops : o.op = "excluded" => Category(o.id) # "other"
  /\ \A a \in AttIds :
       (run >= 1 /\ \/ Category(a) = "media" /\ ~args.include_media
                    \/ Category(a) \in {"transcript", "caption"}
                         /\ ~args.include_transcripts) =>
         /\ files[a] = disk0[2][a]
         /\ a \in ledger <=> a \in loaded

\* With both toggles off a run completed: the transcript, the media and the
\* caption attachment were left out and the attachment classified other was
\* written and marked.
C13_Witness ==
  /\ end = "done"
  /\ ~args.include_media
  /\ ~args.include_transcripts
  /\ ~args.dry_run
  /\ {o.id : o \in {x \in ops : x.op = "excluded"}} = {"a1", "a2", "a3"}
  /\ \E o \in ops : o.op = "mark" /\ o.id = "a4"
  /\ "a4" \in ledger

\* C14 as stated: a non-dry sync writes attachment a1901 (name
\* "transcript.json", type "transcript") of record 12345 to exactly
\* 12345/transcripts/a1901_transcript.json.
C14_PathAsNamed ==
  \A o \in ops :
    (o.op = "save" /\ o.ok /\ o.id = "a1" /\ Completed[o.oi].num = 1) =>
      SavedPath(1, "a1") =
        << <<"1", "2", "3", "4", "5">>,
           <<"t", "r", "a", "n", "s", "c", "r", "i", "p", "t", "s">>,
           <<"a", "1", "9", "0", "1", "_", "t", "r", "a", "n", "s", "c", "r", "i", "p", "t", ".", "j", "s", "o", "n">> >>

\* A call of fn has returned (or raised).
Done(fn) == call.fn = fn /\ call.result # {}
Result == Value(call.result)

\* The options of a download call in the order of the claim: content.<format>
\* when a format is given, the preferred formats in list order, the bare
\* endpoint.
Options ==
  (IF call.format = {} THEN <<>> ELSE <<Value(call.format)>>)
    \o call.preferred_formats \o <<"bare">>

\* C15 as stated: download_attachment_content attempts content.<format>,
\* then the preferred formats in list order, then the bare endpoint; it
\* returns the bytes of the first attempt that succeeds, attempts nothing
\* after it, and attempts the bare endpoint exactly when every earlier
\* option failed or none was given.
C15_FixedOrderBareLast ==
  Done("download_attachment_content") =>
    /\ IsPrefix(call.attempts, Options)
    /\ \A i \in 1..(Len(call.attempts) - 1) : call.outcome[call.attempts[i]] # "ok"
    /\ Result.kind = "bytes" =>
         /\ Result.from = call.attempts[Len(call.attempts)]
         /\ call.outcome[Result.from] = "ok"
    /\ (\E i \in 1..Len(call.attempts) : call.attempts[i] = "bare")
         <=> (\A i \in 1..(Len(Options) - 1) : call.outcome[Options[i]] # "ok")

\* C16 as stated: download_attachment_content fails exactly when the format
\* attempt, every preferred-format attempt and the bare attempt all fail; a
\* failure of a suffixed variant alone never leaves the call.
C16_FailsOnlyOnExhaustion ==
  Done("download_attachment_content") =>
    /\ Result.kind = "raise" <=>
         (\A i \in 1..Len(Options) : call.outcome[Options[i]] # "ok")
    /\ Result.kind = "raise" => Result.from = "bare"

\* The keyword groups in the order of the claim.
Groups == <<"transcript", "caption", "media">>
GroupKeywords(g) ==
  CASE g = "transcript" -> Range(transcript_keywords)
    [] g = "caption" -> Range(caption_keywords)
    [] OTHER -> Range(media_keywords)

\* The lower-cased text of an optional field, absent read as empty.
Text(x) == IF x = {} THEN <<>> ELSE StrLower(Value(x))

\* Group number i matches the call's type or name.
Matches(i) ==
  \E k \in GroupKeywords(Groups[i]) :
    Contains(Text(call.type), k) \/ Contains(Text(call.name), k)

\* C17: classify_attachment returns the first of the groups transcript,
\* caption, media of which the lower-cased type or name contains a keyword,
\* and other when none does; type "transcript" with a name containing "mp4"
\* is transcript; an absent field classifies like an empty one.
C17_FirstMatchingGroup ==
  Done("classify_attachment") =>
    /\ \A i \in DOMAIN Groups :
         (Matches(i) /\ \A j \in 1..(i - 1) : ~Matches(j)) => Result = Groups[i]
    /\ (\A i \in DOMAIN Groups : ~Matches(i)) => Result = "other"
    /\ (call.type = {<<"t", "r", "a", "n", "s", "c", "r", "i", "p", "t">>} /\ Contains(Text(call.name), <<"m", "p", "4">>))
         => Result = "transcript"
    /\ Result = classify_attachment(IF call.type = {} THEN {<<>>} ELSE call.type,
                                    IF call.name = {} THEN {<<>>} ELSE call.name)

\* Type "transcript" with the name "interview.mp4" was classified transcript.
C17_Witness ==
  /\ Done("classify_attachment")
  /\ call.type = {<<"t", "r", "a", "n", "s", "c", "r", "i", "p", "t">>}
  /\ call.name = {<<"i", "n", "t", "e", "r", "v", "i", "e", "w", ".", "m", "p", "4">>}
  /\ Result = "transcript"

Letters == Range(UpperCase) \cup Range(LowerCase)

\* The suffix a display name ends in: what follows its last dot, when that is
\* one or more letters or digits; <<>> when the name has no such ending.
Ending(n) ==
  LET dots == {i \in 1..Len(n) : n[i] = "."}
      last == CHOOSE d \in dots : \A e \in dots : e <= d
  IN  IF dots # {} /\ last < Len(n)
           /\ \A j \in (last + 1)..Len(n) : n[j] \in Letters \cup Digits
        THEN SubSeq(n, last + 1, Len(n))
        ELSE <<>>

CategoryDefault(c) ==
  CASE c = "transcript" -> <<".", "t", "x", "t">>
    [] c = "caption" -> <<".", "s", "r", "t">>
    [] c = "media" -> <<".", "m", "p", "3">>
    [] OTHER -> <<".", "b", "i", "n">>

\* C18: get_file_extension gives "." + format when a (non-empty) format is
\* given; otherwise the lower-cased ending of the display name when the name
\* ends in a dot followed by letters or digits; otherwise the default of the
\* category. The result always starts with a dot.
C18_ExtensionByFirstMatch ==
  Done("get_file_extension") =>
    LET n == IF call.name = {} THEN <<>> ELSE Value(call.name)
    IN  /\ Result # <<>> /\ Result[1] = "."
        /\ Truthy(call.format) => Result = <<".">> \o Value(call.format)
        /\ (~Truthy(call.format) /\ Ending(n) # <<>>)
             => Result = <<".">> \o StrLower(Ending(n))
        /\ (~Truthy(call.format) /\ Ending(n) = <<>>)
             => Result = CategoryDefault(call.attachment_type)

\* No format was given and the name "a.docx.SRT" gave ".srt".
C18_Witness ==
  /\ Done("get_file_extension")
  /\ call.format = {}
  /\ call.name = {<<"a", ".", "d", "o", "c", "x", ".", "S", "R", "T">>}
  /\ Result = <<".", "s", "r", "t">>

\* The content suffixes of the claims and the .json suffix.
ContentSuffixes ==
  { <<".", "d", "o", "c", "x">>,
    <<".", "s", "r", "t">>,
    <<".", "t", "x", "t">> }
DotJson == <<".", "j", "s", "o", "n">>

\* The content suffixes X for which the lower-cased name l matches a rule:
\* X doubled, X followed by .json, X followed by another content suffix, X.
Doubled(l) == {X \in ContentSuffixes : EndsWith(l, X \o X)}
Wrapped(l) == {X \in ContentSuffixes : EndsWith(l, X \o DotJson)}
Mixed(l) ==
  {X \in ContentSuffixes : \E Y \in ContentSuffixes \ {X} : EndsWith(l, X \o Y)}
Single(l) == {X \in ContentSuffixes : EndsWith(l, X)}

\* C19: _get_real_extension applies the five rules top to bottom on the
\* lower-cased name: X.X gives X; a content suffix followed by .json gives
\* the content suffix; two different content suffixes give the first; a
\* single content suffix gives it; otherwise the last suffix of the name.
C19_FiveRules ==
  Done("_get_real_extension") =>
    LET l == StrLower(call.name)
    IN  IF Doubled(l) # {} THEN Doubled(l) = {Result}
        ELSE IF Wrapped(l) # {} THEN Wrapped(l) = {Result}
        ELSE IF Mixed(l) # {} THEN Mixed(l) = {Result}
        ELSE IF Single(l) # {} THEN Single(l) = {Result}
        ELSE Result = PathSuffix(l)

\* "a.txt.srt" resolved to ".txt", the suffix closer to the base name.
C19_Witness ==
  /\ Done("_get_real_extension")
  /\ call.name = <<"a", ".", "t", "x", "t", ".", "s", "r", "t">>
  /\ Result = <<".", "t", "x", "t">>

\* C20 as stated: a file is previewable exactly when its resolved extension
\* is .docx, .txt or .srt, except that a name ending in .json is previewable
\* only when a content suffix (.docx, .srt, .txt) precedes the .json.
C20_PreviewableContentOnly ==
  Done("_is_viewable") =>
    LET l == StrLower(call.name)
    IN  Result <=> IF EndsWith(l, DotJson)
                     THEN Wrapped(l) # {}
                     ELSE get_real_extension(call.name) \in ContentSuffixes

\* The media suffixes that also make a name ending in .json previewable.
MediaSuffixes ==
  { <<".", "m", "p", "4">>,
    <<".", "m", "4", "a">>,
    <<".", "m", "p", "3">> }

\* C20, amended: a file is previewable exactly when its resolved extension
\* is .docx, .txt or .srt, except that a name ending in .json is previewable
\* only when one of .docx, .srt, .txt, .mp4, .m4a, .mp3 precedes the .json.
C20_PreviewableWithMediaJson ==
  Done("_is_viewable") =>
    LET l == StrLower(call.name)
    IN  Result <=>
          IF EndsWith(l, DotJson)
            THEN \E X \in ContentSuffixes \cup MediaSuffixes :
                   EndsWith(l, X \o DotJson)
            ELSE get_real_extension(call.name) \in ContentSuffixes

\* "a.mp4.json" was found previewable.
C20_Witness ==
  /\ Done("_is_viewable")
  /\ call.name = <<"a", ".", "m", "p", "4", ".", "j", "s", "o", "n">>
  /\ Result = TRUE

\* C21: a StorageManager constructed on the export root after one whose
\* marks were all persisted, and that marked at least one id, loads exactly
\* the set the earlier one held: what it had loaded and the ids it marked.
C21_RoundTrip ==
  [][(/\ call'.fn = "StorageManager"
      /\ run' = run + 1
      /\ loadOk'
      /\ ops # {}
      /\ \A o \in ops : o.ok)
       => /\ pc' = "open"
          /\ ledger' = ledger
          /\ ledger' = loaded \cup {o.id : o \in ops}]_vars

C21_Witness ==
  /\ call.fn = "StorageManager"
  /\ pc = "open"
  /\ loadOk
  /\ prev.completed
  /\ prev.lastPersist = "ok"
  /\ ledger = {"a1", "a2", "a3"}
  /\ disk0[1] = Document({"a1", "a2", "a3"})
  /\ run = 2

\* C22: constructing StorageManager raises nothing and starts from the empty
\* set whenever the ledger file is missing, unreadable, or anything but a
\* well-formed ledger document.
C22_LoadNeverFatal ==
  (/\ call.fn = "StorageManager"
   /\ disk0[1].state # "valid" \/ ~loadOk)
    => /\ call.raised = {}
       /\ pc = "open"
       /\ ledger = {}

\* C23: when the persist inside mark_downloaded fails, mark_downloaded
\* returns (sync counts the attachment as downloaded), the id is in the
\* in-memory ledger, and sync stands at the next attachment, the next order
\* or the summary; every id marked in a run stays in the ledger of that run.
C23_PersistFailureKeepsMark ==
  [][/\ \A o \in ops' : o.op = "mark" => o.id \in ledger'
     /\ (lastPersist' = "failed" /\ lastPersist # "failed") =>
          /\ CurAtt \in ledger'
          /\ attachments_downloaded' = attachments_downloaded + 1
          /\ end' \in {"running", "done"}
          /\ IF ai < Len(CurAtts)
               THEN pc' = "att" /\ oi' = oi /\ ai' = ai + 1
             ELSE IF oi < Len(Completed)
               THEN pc' = "order" /\ oi' = oi + 1
             ELSE pc' = "idle" /\ end' = "done"]_vars

\* The persist of a1's mark failed and sync stands at a2 with a1 in the ledger.
C23_Witness ==
  /\ lastPersist = "failed"
  /\ pc = "att"
  /\ oi = 1
  /\ ai = 2
  /\ "a1" \in ledger
  /\ LoadIndex(indexFile, TRUE) = {}

\* Subdirectory of the record's directory each category is stored in.
CategoryDir(c) ==
  CASE c = "media" -> <<"m", "e", "d", "i", "a">>
    [] c \in {"transcript", "caption"} ->
         <<"t", "r", "a", "n", "s", "c", "r", "i", "p", "t", "s">>
    [] OTHER -> <<"o", "t", "h", "e", "r">>

\* The files save_attachment has written so far in the call at hand.
Written == 1..Len(call.written)

\* C24: every path save_attachment returns lies in the record's directory,
\* in media for media, in transcripts for transcript and caption, in other
\* for other, and on return the file at that path holds the bytes passed.
C24_RoutedByCategory ==
  call.fn = "save_attachment" =>
    /\ \A i \in Written :
         /\ call.written[i][1] = call.order_number
         /\ call.written[i][2] = CategoryDir(call.atts[i].attachment_type)
    /\ call.written # <<>> =>
         LET i == Len(call.written)
         IN  \E k \in DOMAIN call.files :
               /\ call.files[k].path = call.written[i]
               /\ call.files[k].content = call.content[i]
               /\ \A j \in DOMAIN call.files :
                    call.files[j].path = call.written[i] => j = k

\* A caption and a transcript have both been saved into transcripts.
C24_Witness ==
  /\ Done("save_attachment")
  /\ call.atts[1].attachment_type = "caption"
  /\ call.atts[2].attachment_type = "transcript"
  /\ call.written[1][2] = call.written[2][2]
  /\ Len(call.files) = 2

\* C25: two attachments with different ids saved into the same record and
\* the same subdirectory get different paths, so both files exist and the
\* first still holds its own bytes.
C25_UniquePaths ==
  (/\ Done("save_attachment")
   /\ call.atts[1].id # call.atts[2].id
   /\ call.written[1][2] = call.written[2][2])
    => /\ call.written[1] # call.written[2]
       /\ \E k \in DOMAIN call.files :
            /\ call.files[k].path = call.written[1]
            /\ call.files[k].content = call.content[1]

\* C26: the file name save_attachment writes is at most 200 characters long
\* and holds none of the characters < > : " / \ | ? *, and what
\* sanitize_filename returns has no such character, is at most 200
\* characters long and neither starts nor ends with a dot or a space.
C26_SanitizedAndCapped ==
  /\ Done("sanitize_filename") =>
       LET r == Result
       IN  /\ Len(r) <= 200
           /\ \A i \in DOMAIN r : r[i] \notin InvalidChars
           /\ r # <<>> => r[1] \notin {" ", "."} /\ r[Len(r)] \notin {" ", "."}
  /\ call.fn = "save_attachment" =>
       \A i \in Written :
         /\ Len(call.written[i][3]) <= 200
         /\ \A k \in DOMAIN call.written[i][3] :
              call.written[i][3][k] \notin InvalidChars

\* The status labels of the listings that equal complete, completed, done or
\* finished once case is ignored.
CompletedLabels == {"Complete", "Completed", "FINISHED"}

\* C27: every call of a run that is made for an order (detail fetch,
\* metadata write, attachment step; the listing requests carry order 0) is
\* for a record whose listing status is a completed one, and every
\* attachments.json on disk belongs to such a record.
C27_OnlyCompletedProcessed ==
  LET processed == {Completed[i] : i \in {o.oi : o \in ops} \ {0}}
  IN  /\ \A r \in processed :
           /\ r.status \in CompletedLabels
           /\ r \in Range(all_orders)
      /\ \A n \in metaFiles :
           \E k \in DOMAIN listing :
             listing[k].num = n /\ listing[k].status \in CompletedLabels
      /\ \A k \in DOMAIN all_orders :
           all_orders[k].status \notin CompletedLabels =>
             \A r \in processed : r.num # all_orders[k].num

\* A run over all three records ended: the record in progress was listed
\* and only the two completed ones were fetched and written.
C27_Witness ==
  /\ end = "done"
  /\ Len(all_orders) = 3
  /\ all_orders[2].status = "In Progress"
  /\ metaFiles = {1, 3}
  /\ {Completed[o.oi].num : o \in {x \in ops : x.op = "detail"}} = {1, 3}

\* The exceptions the two handlers of a run have caught: a failed detail
\* fetch or metadata write per order, a failed metadata fetch, content fetch
\* or file write per attachment, and the AttributeError of the [SKIP] and
\* [OK] lines for an attachment without a name.
Caught ==
  {o \in ops :
     \/ o.op \in {"detail", "savemeta", "meta", "content_body", "content_bare",
                  "save"} /\ ~o.ok
     \/ o.op \in {"hit", "mark"} /\ AttName(o.id) = {}}

\* C28: when a run that is not a dry run reaches its summary, orders_scanned
\* is the number of detail fetches that succeeded, attachments_downloaded is
\* the number of ids the run marked, and the failure list has one entry per
\* exception the two handlers caught.
C28_SummaryExact ==
  (end = "done" /\ ~args.dry_run) =>
    /\ orders_scanned = Cardinality({o \in ops : o.op = "detail" /\ o.ok})
    /\ attachments_downloaded = Cardinality(ledger \ loaded)
    /\ attachments_downloaded = Cardinality({o \in ops : o.op = "mark"})
    /\ Len(failures) = Cardinality(Caught)

\* A run ended with two orders scanned, two attachments marked and one failure.
C28_Witness ==
  /\ end = "done"
  /\ ~args.dry_run
  /\ orders_scanned = 2
  /\ attachments_downloaded = 2
  /\ Len(failures) = 1
  /\ \E o \in ops : o.op = "save" /\ ~o.ok

\* A step in which the metadata fetch, the content fetch or the file write
\* of the current attachment fails, or in which the process ends during one
\* of them.
FetchFailed ==
  \/ \E o \in ops' \ ops :
       o.op \in {"meta", "content_body", "content_bare", "save"} /\ ~o.ok
  \/ /\ pc \in {"meta", "content_fmt", "content_bare", "save"}
     /\ pc' = "idle"
     /\ end' \in {"crash", "interrupt"}

\* C29 as stated: after such a step the attachment's id is in neither the
\* in-memory ledger nor the ledger file, and both are as they were.
C29_FailedFetchNotInLedger ==
  [][FetchFailed =>
       /\ CurAtt \notin ledger'
       /\ CurAtt \notin LoadIndex(indexFile', TRUE)
       /\ ledger' = ledger
       /\ indexFile' = indexFile]_vars

\* C29, amended: such a step leaves the in-memory ledger and the ledger file
\* as they were and the id is not in the in-memory ledger; the file holds
\* the id only if it already did when the run started and the run could not
\* read it.
C29_FailedFetchMarksNothing ==
  [][FetchFailed =>
       /\ CurAtt \notin ledger'
       /\ ledger' = ledger
       /\ indexFile' = indexFile
       /\ CurAtt \in LoadIndex(indexFile', TRUE) =>
            /\ ~loadOk
            /\ CurAtt \in LoadIndex(disk0[1], TRUE)]_vars

\* The run is over, a fetch failed for an attachment whose id is not in the
\* ledger, and the ledger holds the ids of the other attachments.
C29_Witness ==
  /\ end = "done"
  /\ ledger # {}
  /\ indexFile = Document(ledger)
  /\ \E o \in ops : AttFail(o) /\ o.id \notin ledger

\* The bytes of the attachment at position (i, j) of the run came from the
\* bare content endpoint.
FromBare(i, j) ==
  \E o \in ops : o.oi = i /\ o.ai = j /\ o.op = "content_bare" /\ o.ok

\* The extension the claim gives the file: the preferred format when the
\* bytes came from content.<format>, the suffix of the display name or the
\* category default when they came from the bare endpoint.
ExtensionFetched(a, bare) ==
  LET att_type == ClassifyAttachment(a)
      preferred_format == OptChars(PreferredFormat(att_type))
  IN  get_file_extension(OptChars(AttName(a)), att_type,
                         IF bare THEN {} ELSE preferred_format)

\* C30: the file sync writes for an attachment carries the preferred format
\* as its extension when content.<format> served the bytes, and the suffix
\* of the display name or the category default when the bare endpoint did.
C30_ExtensionOfWhatWasFetched ==
  \A o \in ops :
    (o.op = "save" /\ o.ok) =>
      LET n == Completed[o.oi].num
          a == o.id
      IN  SavedPath(n, a) =
            save_attachment(OrderNumber(n), AttIdChars(a), OptChars(AttName(a)),
                            ClassifyAttachment(a),
                            ExtensionFetched(a, FromBare(o.oi, o.ai)))

\* C31: once sync has been interrupted the run is over with exit code 1, the
\* failure list holds no entry beyond the calls the run made, and every id in
\* the ledger file as it stands has its file completely written.
C31_InterruptLeavesLedgerBacked ==
  (pc = "idle" /\ end = "interrupt") =>
    /\ exitCode = {1}
    /\ Len(failures) <= Cardinality({o \in ops : o.oi > 0})
    /\ \A a \in LoadIndex(indexFile, TRUE) : files[a] = "full"

\* Pages of the listing that hold records.
FullPages == (Len(listing) + PageSize - 1) \div PageSize

\* C32: get_all_orders leaves its loop, and until then it has requested no
\* more pages than the listing has pages holding records, plus the empty one.
C32_EnumerationTerminates ==
  /\ [](Len(requested) <= FullPages + 1)
  /\ <>(pc # "enum")

\* The loop ended on the empty page after the listing: every page holding
\* records declared a total_count larger than the listing.
C32_Witness ==
  /\ pc = "filter"
  /\ Len(listing) > PageSize
  /\ \A p \in 0..(FullPages - 1) : TotalCount(p) > Len(listing)
  /\ requested = UpTo(FullPages)
  /\ all_orders = listing

\* C33: an order whose metadata write failed has one entry in the failure
\* list and none of its attachments processed; the failure is not fatal and,
\* when the run completes, the exit code is 0 and every later completed
\* order has been asked for.
C33_MetadataFailureIsolated ==
  \A o \in ops :
    (o.op = "savemeta" /\ ~o.ok) =>
      /\ Cardinality({n \in 1..Len(failures) : failures[n] = <<"order", o.oi, 0>>}) = 1
      /\ \A r \in ops : r.oi = o.oi => r.ai = 0
      /\ end # "fatal"
      /\ end = "done" =>
           /\ exitCode = {0}
           /\ \A i \in (o.oi + 1)..Len(Completed) : Asked(i)

\* The first order's metadata write failed and the second order's
\* attachments were processed, up to the summary.
C33_Witness ==
  /\ end = "done"
  /\ exitCode = {0}
  /\ Op(1, 0, "", "savemeta", FALSE) \in ops
  /\ Op(2, 0, "", "savemeta", TRUE) \in ops
  /\ \E o \in ops : o.oi = 2 /\ o.op = "mark"

\* C34: in a run that is not a dry run, every step taken for an attachment
\* of an order follows a successful metadata write for that order in the same
\* run, a successful metadata write leaves the order's metadata file, and
\* when the run completes every order whose detail fetch succeeded has had
\* its metadata write attempted.
C34_MetadataBeforeAttachments ==
  ~args.dry_run =>
    /\ \A o \in ops : o.ai > 0 => Op(o.oi, 0, "", "savemeta", TRUE) \in ops
    /\ \A o \in ops :
         (o.op = "savemeta" /\ o.ok) => Completed[o.oi].num \in metaFiles
    /\ end = "done" =>
         \A o \in ops :
           (o.op = "detail" /\ o.ok) =>
             \E r \in ops : r.oi = o.oi /\ r.op = "savemeta"

\* A second run wrote the metadata file of an order again and then skipped
\* both of its attachments as already downloaded.
C34_Witness ==
  /\ run = 2
  /\ ~args.dry_run
  /\ 1 \in disk0[3]
  /\ Op(1, 0, "", "savemeta", TRUE) \in ops
  /\ Op(1, 1, "a1", "hit", TRUE) \in ops
  /\ Op(1, 2, "a2", "hit", TRUE) \in ops

\* C35: while a StorageManager lives no step removes an id from its set, and
\* whenever its last mark_downloaded persisted, the ledger file holds exactly
\* the set: the ids loaded by the constructor and every id marked since.
C35_GrowsAndWrittenThrough ==
  /\ [][(pc = "open" /\ pc' = "open") => ledger \subseteq ledger']_vars
  /\ []((pc = "open" /\ lastPersist = "ok") =>
          /\ indexFile = Document(ledger)
          /\ ledger = loaded \cup {o.id : o \in ops})

\* A StorageManager that loaded ids marked one whose persist failed and then
\* another whose persist succeeded: the file holds all of them.
C35_Witness ==
  /\ pc = "open"
  /\ loaded # {}
  /\ lastPersist = "ok"
  /\ \E o \in ops : ~o.ok /\ o.id \notin loaded
  /\ \E o \in ops : o.ok /\ o.id \notin loaded
  /\ indexFile = Document(ledger)

\* C36: with a cutoff, while get_all_orders runs or after it has returned,
\* every record without placed_on on a page already received is in the list
\* at its place unless a dated record older than the cutoff precedes it, and
\* the list never ends inside a page except before a dated, older record.
C36_UndatedNeverCutsOff ==
  (args.since # {} /\ pc \in {"enum", "filter"}) =>
    /\ \A i \in 1..Len(listing) :
         (/\ listing[i].placed = {}
          /\ PageOf(i) \in Range(requested)
          /\ \A k \in 1..(i - 1) : ~Older(k))
           => (i <= Len(all_orders) /\ all_orders[i] = listing[i])
    /\ \A p \in Range(requested) :
         Len(all_orders) < Served(p) => IsK(Len(all_orders) + 1)

\* Undated records at the head of the listing and on its second page were
\* emitted, and the enumeration went on to stop at a dated, older record.
C36_Witness ==
  /\ pc = "filter"
  /\ args.since # {}
  /\ Len(listing) >= PageSize + 2
  /\ listing[1].placed = {}
  /\ Len(all_orders) = PageSize + 1
  /\ listing[PageSize + 1].placed = {}
  /\ IsK(PageSize + 2)

\* C37: a page that held records and declared no total_count is the last
\* page get_all_orders requested, and the list ends with that page's records
\* (with those before the first one older than the cutoff, if there is one).
C37_NoTotalEndsEnumeration ==
  pc \in {"enum", "filter"} =>
    \A p \in Range(requested) :
      (PageOrders(p) # <<>> /\ declared[p] = {}) =>
        /\ pc = "filter"
        /\ requested = UpTo(p)
        /\ IsPrefix(all_orders, SubSeq(listing, 1, Served(p)))
        /\ (\A k \in 1..Served(p) : ~Older(k)) =>
             all_orders = SubSeq(listing, 1, Served(p))

\* The first page declared no total_count and the records of a later page
\* were left unread.
C37_Witness ==
  /\ pc = "filter"
  /\ requested = <<0>>
  /\ declared[0] = {}
  /\ Len(listing) > PageSize
  /\ all_orders = SubSeq(listing, 1, PageSize)

\* C39: an attachment that has an entry in the failure list was neither
\* marked (and so counted as downloaded) nor skipped as already downloaded
\* by the step of the run that the entry stands for.
C39_NoDoubleCounting ==
  \A k \in 1..Len(failures) :
    failures[k][1] = "att" =>
      \A o \in ops :
        (o.oi = failures[k][2] /\ o.ai = failures[k][3]) =>
          o.op \notin {"mark", "hit"}

\* The run is not a dry run and its flags include attachment a's category.
Wanted(a) == ~args.dry_run /\ ~Excluded(ClassifyAttachment(a), args)

\* The step recorded as o is the one sync is at, or was at when it stopped.
Current(o) == o.oi = oi /\ o.ai = ai

\* sync has begun on attachment a by asking for its metadata.
Trying(a) == pc = "meta" /\ CurAtt = a

\* C38: wherever a run that is not a dry run and includes its category
\* reaches an attachment, failed before or not, it skips it only if some run
\* has written it and it is in the ledger; otherwise its metadata is asked
\* for, and its content once the metadata has come. And once the metadata is
\* asked for, the attachment ends up in the ledger, unless the remote or the
\* disk fails it again or the process is stopped.
C38_FailedRetried ==
  /\ [](\A o \in ops :
          (o.ai > 0 /\ Wanted(o.id)) =>
            /\ o.op \notin {"excluded", "would"}
            /\ o.op = "hit" => o.id \in saved \cap ledger
            /\ o.op = "miss" =>
                 \/ \E m \in ops : m.oi = o.oi /\ m.ai = o.ai /\ m.op = "meta"
                 \/ Current(o) /\ pc \in {"meta", "idle"}
            /\ (o.op = "meta" /\ o.ok) =>
                 \/ \E m \in ops :
                      /\ m.oi = o.oi
                      /\ m.ai = o.ai
                      /\ m.op \in {"content_fmt", "content_body", "content_bare"}
                 \/ Current(o) /\ pc \in {"content_fmt", "content_bare", "idle"})
  /\ \A a \in AttIds :
       Trying(a) ~> \/ a \in ledger
                    \/ a \in Failed
                    \/ end \in {"crash", "interrupt"}

\* The write of a1 failed in the first run, which ran to its summary and
\* left a partial file; the second run asked for its metadata and content
\* again, wrote it and marked it.
C38_Witness ==
  /\ run = 2
  /\ prev.completed
  /\ disk0[2]["a1"] = "partial"
  /\ "a1" \notin loaded
  /\ Op(1, 1, "a1", "meta", TRUE) \in ops
  /\ Op(1, 1, "a1", "content_fmt", TRUE) \in ops
  /\ Op(1, 1, "a1", "mark", TRUE) \in ops
  /\ "a1" \in ledger
  /\ files["a1"] = "full"

====
